---- MODULE Spec2Model ----
(***************************************************************************)
(* Coldstar live wallet (src/new/tui_wallet.py): the refresh pipeline of   *)
(* ColdstarLiveWallet, its hand-off handlers, and the send flow of         *)
(* LiveSendPanel / ColdstarLiveWallet._do_send.                            *)
(*                                                                         *)
(* Threads.  Every handler of the Textual application runs on the UI       *)
(* thread, one at a time.  run_worker(..., thread=True) starts a Python    *)
(* thread; call_from_thread(f, x) blocks that thread until the UI thread   *)
(* has run f(x).  A worker is therefore a sequence of steps that alternate *)
(* between the worker thread (I/O and the statements around it) and the UI *)
(* thread (the handler handed off).  run_worker(exclusive=True) marks the  *)
(* earlier workers cancelled; a thread worker is not interrupted by that.  *)
(*                                                                         *)
(* Amounts and balances are counted in micro-SOL, so the fixed fee         *)
(* 0.000005 SOL is 5.                                                      *)
(***************************************************************************)
EXTENDS Integers, Sequences, FiniteSets, TLC

\* Python's None, for the string-valued fields.
NONE == "None"

\* Optional integers (selected_device_index): None is <<>>, i is <<i>>.
NoIndex == << >>
Index(i) == << i >>

------------------------------------------------------------------------------
\* Bounds of the model.

\* Refresh worker threads that may be alive at once, in SpecRefresh.
MaxRuns == 2
\* Refresh worker threads that may be alive at once, in SpecData.
DataRuns == 1
\* Send worker threads that may be alive at once.
MaxSends == 1
\* Refresh worker threads that may be alive at once, beside the send flow.
SendRuns == 1
MaxTime == 12
MaxMores == 2
MaxLamports == 2
MaxBatch == 3
MaxAirdrops == 1


------------------------------------------------------------------------------
\* Program constants.

\* fee = 0.000005 SOL, in micro-SOL.
Fee == 5
\* time.time() - self._last_mount_attempt > 5
MountInterval == 5
\* page_size = reactive(5); self.page_size = 5
PageSize == 5
\* if amount > 2: amount = 2.0, in micro-SOL.
AirdropCap == 2000000

------------------------------------------------------------------------------
\* The outside world the workers read.

\* Removable devices as detect_usb_devices() reports them.
DevA == [device |-> "/dev/sdb", mountpoint |-> "/mnt/a"]
DevB == [device |-> "/dev/sdc", mountpoint |-> NONE]
DeviceLists == { << >>, <<DevA>>, <<DevB>>, <<DevA, DevB>> }

\* What mount_device(device) may return.
MountResults == { NONE, "/mnt/b" }

\* The content of <mount>/wallet/pubkey.txt.
PubkeyAt(mount_point) == IF mount_point = "/mnt/a" THEN "KeyA" ELSE "KeyB"

\* get_balance(pubkey): None, or the balance.
Balances == { 0, 20 }
BalanceResults == { << >> } \cup { <<b>> : b \in Balances }

\* getTokenAccountsByOwner: the request raises, or answers these accounts.
TokUSDC == [mint |-> "USDC", is_known |-> TRUE, balance |-> 5]
TokX == [mint |-> "X", is_known |-> FALSE, balance |-> 7]
TokenAccountLists == { << >>, <<TokX>>, <<TokX, TokUSDC>> }
TokenResponses ==
    { [raised |-> TRUE, value |-> << >>] }
        \cup { [raised |-> FALSE, value |-> v] : v \in TokenAccountLists }

\* get_transaction_history(pubkey, 10): newest first.
TxHistories == { << >>, << [signature |-> "s2"], [signature |-> "s1"] >> }

------------------------------------------------------------------------------
\* src/src/token_fetcher.py

\* get_token_accounts: any exception of the request yields [].
GetTokenAccounts(response) ==
    IF response.raised THEN << >> ELSE response.value

\* The sort key of get_all_token_balances: (not is_known, -balance).
TokenBefore(a, b) ==
    \/ a.is_known /\ ~b.is_known
    \/ a.is_known = b.is_known /\ a.balance > b.balance

RECURSIVE InsertToken(_, _)
InsertToken(t, sorted) ==
    IF sorted = << >> THEN << t >>
    ELSE IF TokenBefore(t, Head(sorted)) THEN << t >> \o sorted
    ELSE << Head(sorted) >> \o InsertToken(t, Tail(sorted))

RECURSIVE SortTokens(_)
SortTokens(balances) ==
    IF balances = << >> THEN << >>
    ELSE InsertToken(balances[Len(balances)],
                     SortTokens(SubSeq(balances, 1, Len(balances) - 1)))

\* get_all_token_balances: the accounts fetched, parsed and sorted.
GetAllTokenBalances(response) == SortTokens(GetTokenAccounts(response))

------------------------------------------------------------------------------
\* ColdstarLiveWallet._enrich_transactions

\* getTransaction's answer for a signature: the call raises, finds nothing,
\* or gives the account keys, balances (lamports) and fee.
DetailOf(signature) ==
    IF signature = "s1"
    THEN [kind |-> "detail", account_keys |-> << "KeyA", "Other" >>,
          pre |-> << 100, 0 >>, post |-> << 40, 50 >>, fee |-> 10]
    ELSE [kind |-> "raised"]

IndexOf(key, keys) == CHOOSE i \in 1..Len(keys) :
    keys[i] = key /\ \A j \in 1..(i - 1) : keys[j] # key

\* An enrichment that reports the payer's raw balance change as the amount
\* sent, the fee not added back.
EnrichEntryRawDelta(tx, detail, pubkey) ==
    IF detail.kind # "detail" THEN tx
    ELSE
      LET fee == detail.fee
          withFee == [fee_sol |-> fee] @@ tx
      IN  IF \E i \in 1..Len(detail.account_keys) : detail.account_keys[i] = pubkey
          THEN LET idx == IndexOf(pubkey, detail.account_keys)
                   delta == detail.post[idx] - detail.pre[idx]
               IN  IF idx <= Len(detail.pre) /\ idx <= Len(detail.post)
                   THEN IF idx = 1 /\ delta < 0
                        THEN [sol_delta |-> delta, direction |-> "sent"]
                                 @@ withFee
                        ELSE IF delta > 0
                        THEN [sol_delta |-> delta, direction |-> "received"]
                                 @@ withFee
                        ELSE [sol_delta |-> delta, direction |-> "other"]
                                 @@ withFee
                   ELSE withFee
          ELSE withFee

\* An enrichment that calls an increase "received" only when the owner is
\* not the fee payer.
EnrichEntryPayerNeverReceives(tx, detail, pubkey) ==
    IF detail.kind # "detail" THEN tx
    ELSE
      LET fee == detail.fee
          withFee == [fee_sol |-> fee] @@ tx
      IN  IF \E i \in 1..Len(detail.account_keys) : detail.account_keys[i] = pubkey
          THEN LET idx == IndexOf(pubkey, detail.account_keys)
                   delta == detail.post[idx] - detail.pre[idx]
               IN  IF idx <= Len(detail.pre) /\ idx <= Len(detail.post)
                   THEN IF idx = 1 /\ delta < 0
                        THEN [sol_delta |-> delta + fee, direction |-> "sent"]
                                 @@ withFee
                        ELSE IF delta > 0 /\ idx # 1
                        THEN [sol_delta |-> delta, direction |-> "received"]
                                 @@ withFee
                        ELSE [sol_delta |-> delta, direction |-> "other"]
                                 @@ withFee
                   ELSE withFee
          ELSE withFee

\* An enrichment that calls every decrease "sent", whoever paid the fee.
EnrichEntryAnyDecreaseIsSent(tx, detail, pubkey) ==
    IF detail.kind # "detail" THEN tx
    ELSE
      LET fee == detail.fee
          withFee == [fee_sol |-> fee] @@ tx
      IN  IF \E i \in 1..Len(detail.account_keys) : detail.account_keys[i] = pubkey
          THEN LET idx == IndexOf(pubkey, detail.account_keys)
                   delta == detail.post[idx] - detail.pre[idx]
               IN  IF idx <= Len(detail.pre) /\ idx <= Len(detail.post)
                   THEN IF delta < 0
                        THEN [sol_delta |-> delta + fee, direction |-> "sent"]
                                 @@ withFee
                        ELSE IF delta > 0
                        THEN [sol_delta |-> delta, direction |-> "received"]
                                 @@ withFee
                        ELSE [sol_delta |-> delta, direction |-> "other"]
                                 @@ withFee
                   ELSE withFee
          ELSE withFee

\* An enrichment that records the fee only together with a direction.
EnrichEntryFeeWithDirection(tx, detail, pubkey) ==
    IF detail.kind # "detail" THEN tx
    ELSE
      LET fee == detail.fee
          withFee == [fee_sol |-> fee] @@ tx
      IN  IF \E i \in 1..Len(detail.account_keys) : detail.account_keys[i] = pubkey
          THEN LET idx == IndexOf(pubkey, detail.account_keys)
                   delta == detail.post[idx] - detail.pre[idx]
               IN  IF idx <= Len(detail.pre) /\ idx <= Len(detail.post)
                   THEN IF idx = 1 /\ delta < 0
                        THEN [sol_delta |-> delta + fee, direction |-> "sent"]
                                 @@ withFee
                        ELSE IF delta > 0
                        THEN [sol_delta |-> delta, direction |-> "received"]
                                 @@ withFee
                        ELSE [sol_delta |-> delta, direction |-> "other"]
                                 @@ withFee
                   ELSE tx
          ELSE tx

\* One entry of the batch; sol_delta and fee_sol are kept in lamports.
EnrichEntry(tx, detail, pubkey) ==
    IF detail.kind # "detail" THEN tx
    ELSE
      LET fee == detail.fee
          withFee == [fee_sol |-> fee] @@ tx
      IN  IF \E i \in 1..Len(detail.account_keys) : detail.account_keys[i] = pubkey
          THEN LET idx == IndexOf(pubkey, detail.account_keys)
                   delta == detail.post[idx] - detail.pre[idx]
               IN  IF idx <= Len(detail.pre) /\ idx <= Len(detail.post)
                   THEN IF idx = 1 /\ delta < 0
                        THEN [sol_delta |-> delta + fee, direction |-> "sent"]
                                 @@ withFee
                        ELSE IF delta > 0
                        THEN [sol_delta |-> delta, direction |-> "received"]
                                 @@ withFee
                        ELSE [sol_delta |-> delta, direction |-> "other"]
                                 @@ withFee
                   ELSE withFee
          ELSE withFee

\* The loop of _enrich_transactions over the batch, details[i] being the
\* answer of get_transaction_details for txs[i]: each entry is copied,
\* enriched inside its own try block, and appended.
RECURSIVE EnrichBatch(_, _, _)
EnrichBatch(txs, details, pubkey) ==
    IF txs = << >> THEN << >>
    ELSE << EnrichEntry(txs[1], details[1], pubkey) >>
            \o EnrichBatch(Tail(txs), Tail(details), pubkey)

EnrichTransactions(txs, pubkey) ==
    EnrichBatch(txs, [i \in 1..Len(txs) |-> DetailOf(txs[i].signature)], pubkey)

------------------------------------------------------------------------------
\* State.

VARIABLES
    app,            \* ColdstarLiveWallet: current_public_key, current_balance,
                    \* current_tokens, detected_devices, selected_device_index,
                    \* last_mount_attempt, did_unmount, and whether exit()
                    \* was called
    usb_manager,    \* USBManager.mount_point
    status_bar,     \* LiveStatusBar: mode, network_status
    info_bar,       \* LiveInfoBar: balance, public_key
    portfolio,      \* LivePortfolioPanel: sol_balance, tokens, public_key,
                    \* selected_index, and the indexes of the TokenSelected
                    \* messages posted and not yet handled
    token_details,  \* TokenDetailsPanel: selected_token, sol_balance
    token_security, \* TokenSecurityPanel: selected_token, security_data,
                    \* and the _fetch_security threads alive
    tx_panel,       \* TransactionHistoryPanel: transactions, page_size,
                    \* selected_index
    device_panel,   \* DevicePanel: devices, selected_index
    send_panel,     \* LiveSendPanel and its inputs, with the Input.Changed
                    \* and SendRequested messages posted and not yet handled
    runs,           \* the _fetch_wallet_data worker threads
    sends,          \* the _do_send worker threads
    now,            \* time.time(), in seconds
    mores,          \* LoadMore messages posted and _fetch_more_txs threads
    airdrops,       \* NetworkPanel's airdrop status, the _do_airdrop threads
                    \* and the requestAirdrop calls made
    config,         \* config.SOLANA_RPC_URL
    batch           \* an enrichment batch: raw entries, details, result

vars == << app, usb_manager, status_bar, info_bar, portfolio, token_details,
           token_security, tx_panel, device_panel, send_panel, runs, sends, now,
           mores, airdrops, config, batch >>

\* The state the refresh and send workers never touch.
others == << mores, airdrops, config, batch >>

\* A _fetch_wallet_data thread as it starts.
NoDevice == [device |-> NONE, mountpoint |-> NONE]
NewRun == [pc |-> "net", cancelled |-> FALSE, connected |-> FALSE,
            devices |-> << >>, device |-> NoDevice,
            pubkey_path |-> NONE, pubkey |-> NONE, balance |-> 0,
            tokens |-> << >>, txs |-> << >>]


\* The network panel as composed, no load-more or airdrop worker, the
\* configured RPC endpoint, and no enrichment batch at hand.
Devnet == "https://api.devnet.solana.com"
NoBatch == [txs |-> << >>, details |-> << >>, pubkey |-> NONE,
            done |-> FALSE, out |-> << >>]
InitOthers ==
    /\ mores = << >>
    /\ airdrops = [status |-> "", amount_input |-> "", threads |-> << >>,
                   requests |-> { }]
    /\ config = [SOLANA_RPC_URL |-> Devnet]
    /\ batch = NoBatch

\* ColdstarLiveWallet.__init__ and the widgets' reactive defaults, the
\* widgets mounted: the watcher of the portfolio's selected_index has run
\* for the default 0 and posted TokenSelected(0).
InitSession ==
    /\ app = [current_public_key |-> NONE, current_balance |-> 0,
              current_tokens |-> << >>, detected_devices |-> << >>,
              selected_device_index |-> NoIndex, last_mount_attempt |-> 0,
              did_unmount |-> FALSE, exited |-> FALSE]
    /\ usb_manager = [mount_point |-> NONE]
    /\ status_bar = [mode |-> "OFFLINE", network_status |-> "Disconnected"]
    /\ info_bar = [balance |-> 0, public_key |-> ""]
    /\ portfolio = [sol_balance |-> 0, tokens |-> << >>, public_key |-> "",
                    selected_index |-> 0, posted |-> << 0 >>]
    /\ token_details = [selected_token |-> << >>, sol_balance |-> 0]
    /\ token_security = [selected_token |-> << >>, security_data |-> << >>,
                         threads |-> << >>]
    /\ tx_panel = [transactions |-> << >>, page_size |-> PageSize,
                   selected_index |-> 0]
    /\ device_panel = [devices |-> << >>, selected_index |-> NoIndex]
    /\ send_panel = [current_balance |-> 0, confirming |-> FALSE,
                     to_address |-> "", amount_input |-> "",
                     wallet_password |-> "", review |-> "Fill in address and amount below",
                     confirm_summary |-> "", changed |-> 0, requested |-> 0]
    /\ runs = << >>
    /\ sends = << >>
    /\ now = MountInterval + 1

Init == InitSession /\ InitOthers

------------------------------------------------------------------------------
\* ColdstarLiveWallet.refresh_data and the worker _fetch_wallet_data.

\* The worker threads alive, oldest first.
Alive == 1..Len(runs)

\* refresh_data, on the UI thread: the status bar shows SYNCING... and
\* run_worker(exclusive=True, thread=True) marks the workers before it
\* cancelled and starts a new thread; at most `limit` threads are modelled.
RefreshData(limit) ==
    /\ Len(runs) < limit
    /\ runs' = Append([i \in Alive |-> [runs[i] EXCEPT !.cancelled = TRUE]],
                      NewRun)
    /\ status_bar' = [status_bar EXCEPT !.mode = "SYNCING..."]

\* on_mount's first call, the 15 s timer, and the key r (action_refresh).
ActionRefresh(limit) ==
    /\ RefreshData(limit)
    /\ UNCHANGED << app, usb_manager, info_bar, portfolio, token_details,
                    token_security, tx_panel, device_panel, send_panel, sends, now,
                    others >>

\* The worker thread returns.
EndRun(r) == [i \in 1..(Len(runs) - 1) |-> IF i < r THEN runs[i] ELSE runs[i + 1]]

\* connected = self.network.is_connected()
FetchNetwork(r, connected) ==
    /\ r \in Alive /\ runs[r].pc = "net"
    /\ runs' = [runs EXCEPT ![r].pc = "net_commit", ![r].connected = connected]
    /\ UNCHANGED << app, usb_manager, status_bar, info_bar, portfolio,
                    token_details, token_security, tx_panel, device_panel,
                    send_panel, sends, now, others >>

\* _update_network_status, handed to the UI thread; `if connected:` sends
\* the worker to get_network_info, otherwise to the device scan.
UpdateNetworkStatus(r) ==
    /\ r \in Alive /\ runs[r].pc = "net_commit"
    /\ status_bar' = [status_bar EXCEPT !.network_status =
                        IF runs[r].connected THEN "Connected" ELSE "Disconnected"]
    /\ runs' = [runs EXCEPT ![r].pc = IF runs[r].connected THEN "info" ELSE "usb"]
    /\ UNCHANGED << app, usb_manager, info_bar, portfolio, token_details,
                    token_security, tx_panel, device_panel, send_panel, sends, now,
                    others >>

\* info = self.network.get_network_info(): version, slot and epoch, or an
\* error entry; only the network panel's text depends on it.
GetNetworkInfo(r) ==
    /\ r \in Alive /\ runs[r].pc = "info"
    /\ runs' = [runs EXCEPT ![r].pc = "info_commit"]
    /\ UNCHANGED << app, usb_manager, status_bar, info_bar, portfolio,
                    token_details, token_security, tx_panel, device_panel,
                    send_panel, sends, now, others >>

\* _update_network_info, handed to the UI thread: it writes the RPC URL,
\* the status and the details into the network panel's #network-info and
\* #network-extra texts and nothing else.
UpdateNetworkInfo(r) ==
    /\ r \in Alive /\ runs[r].pc = "info_commit"
    /\ runs' = [runs EXCEPT ![r].pc = "usb"]
    /\ UNCHANGED << app, usb_manager, status_bar, info_bar, portfolio,
                    token_details, token_security, tx_panel, device_panel,
                    send_panel, sends, now, others >>

\* devices = self.usb_manager.detect_usb_devices()
DetectUsb(r, devices) ==
    /\ r \in Alive /\ runs[r].pc = "usb"
    /\ runs' = [runs EXCEPT ![r].pc = "usb_commit", ![r].devices = devices]
    /\ UNCHANGED << app, usb_manager, status_bar, info_bar, portfolio,
                    token_details, token_security, tx_panel, device_panel,
                    send_panel, sends, now, others >>

\* _update_devices, handed to the UI thread.
UpdateDevices(r) ==
    /\ r \in Alive /\ runs[r].pc = "usb_commit"
    /\ app' = [app EXCEPT !.detected_devices = runs[r].devices]
    /\ device_panel' = [devices |-> runs[r].devices,
                        selected_index |-> app.selected_device_index]
    /\ runs' = [runs EXCEPT ![r].pc =
                  IF runs[r].devices = << >> THEN "offline" ELSE "select"]
    /\ UNCHANGED << usb_manager, status_bar, info_bar, portfolio, token_details,
                    token_security, tx_panel, send_panel, sends, now, others >>

\* _set_mode("OFFLINE"), handed to the UI thread; the worker returns.
SetModeOffline(r) ==
    /\ r \in Alive /\ runs[r].pc = "offline"
    /\ status_bar' = [status_bar EXCEPT !.mode = "OFFLINE"]
    /\ runs' = EndRun(r)
    /\ UNCHANGED << app, usb_manager, info_bar, portfolio, token_details,
                    token_security, tx_panel, device_panel, send_panel, sends, now,
                    others >>

\* The worker picks the device: the only one, or the selected one.
SelectDevice(r) ==
    /\ r \in Alive /\ runs[r].pc = "select"
    /\ LET devices == runs[r].devices
           sel == app.selected_device_index
       IN  IF Len(devices) = 1
           THEN /\ app' = [app EXCEPT !.selected_device_index = Index(0)]
                /\ runs' = [runs EXCEPT ![r].pc = "mount",
                                        ![r].device = devices[1]]
           ELSE IF sel = NoIndex \/ sel[1] >= Len(devices)
           THEN /\ runs' = [runs EXCEPT ![r].pc = "select_usb"]
                /\ UNCHANGED app
           ELSE /\ runs' = [runs EXCEPT ![r].pc = "mount",
                                        ![r].device = devices[sel[1] + 1]]
                /\ UNCHANGED app
    /\ UNCHANGED << usb_manager, status_bar, info_bar, portfolio, token_details,
                    token_security, tx_panel, device_panel, send_panel, sends, now,
                    others >>

\* _set_mode("SELECT USB"), handed to the UI thread; the worker returns.
SetModeSelectUsb(r) ==
    /\ r \in Alive /\ runs[r].pc = "select_usb"
    /\ status_bar' = [status_bar EXCEPT !.mode = "SELECT USB"]
    /\ runs' = EndRun(r)
    /\ UNCHANGED << app, usb_manager, info_bar, portfolio, token_details,
                    token_security, tx_panel, device_panel, send_panel, sends, now,
                    others >>

\* The worker takes the device's mount point, or decides to mount it if the
\* last attempt is more than MountInterval seconds old.
Mount(r) ==
    /\ r \in Alive /\ runs[r].pc = "mount"
    /\ LET mount_point == runs[r].device.mountpoint
       IN  IF mount_point # NONE
           THEN /\ usb_manager' = [usb_manager EXCEPT !.mount_point = mount_point]
                /\ runs' = [runs EXCEPT ![r].pc = "status"]
           ELSE IF now - app.last_mount_attempt > MountInterval
           THEN /\ runs' = [runs EXCEPT ![r].pc = "mount_stamp"]
                /\ UNCHANGED usb_manager
           ELSE /\ runs' = [runs EXCEPT ![r].pc = "status"]
                /\ UNCHANGED usb_manager
    /\ UNCHANGED << app, status_bar, info_bar, portfolio, token_details,
                    token_security, tx_panel, device_panel, send_panel, sends, now,
                    others >>

\* self._last_mount_attempt = time.time(), a statement of its own on the
\* worker thread: another thread may run between the test and it.
MountStamp(r) ==
    /\ r \in Alive /\ runs[r].pc = "mount_stamp"
    /\ app' = [app EXCEPT !.last_mount_attempt = now]
    /\ runs' = [runs EXCEPT ![r].pc = "mount_io"]
    /\ UNCHANGED << usb_manager, status_bar, info_bar, portfolio, token_details,
                    token_security, tx_panel, device_panel, send_panel, sends, now,
                    others >>

\* mount_point = self.usb_manager.mount_device(device.get("device"))
MountDevice(r, result) ==
    /\ r \in Alive /\ runs[r].pc = "mount_io"
    /\ usb_manager' = IF result # NONE
                      THEN [usb_manager EXCEPT !.mount_point = result]
                      ELSE usb_manager
    /\ runs' = [runs EXCEPT ![r].pc = "status"]
    /\ UNCHANGED << app, status_bar, info_bar, portfolio, token_details,
                    token_security, tx_panel, device_panel, send_panel, sends, now,
                    others >>

\* _update_status_bar, handed to the UI thread.
UpdateStatusBar(r) ==
    /\ r \in Alive /\ runs[r].pc = "status"
    /\ status_bar' = [status_bar EXCEPT !.mode = "READY"]
    /\ runs' = [runs EXCEPT ![r].pc = "pubkey"]
    /\ UNCHANGED << app, usb_manager, info_bar, portfolio, token_details,
                    token_security, tx_panel, device_panel, send_panel, sends, now,
                    others >>

\* if not self.usb_manager.mount_point: return
TestMountPoint(r) ==
    /\ r \in Alive /\ runs[r].pc = "pubkey"
    /\ runs' = IF usb_manager.mount_point = NONE THEN EndRun(r)
               ELSE [runs EXCEPT ![r].pc = "pubkey_path"]
    /\ UNCHANGED << app, usb_manager, status_bar, info_bar, portfolio,
                    token_details, token_security, tx_panel, device_panel,
                    send_panel, sends, now, others >>

\* pubkey_path = Path(self.usb_manager.mount_point) / "wallet" / "pubkey.txt",
\* a second read of the mount point: Path(None) raises TypeError, which
\* nothing catches; otherwise the thread record keeps the mount point the
\* path was built from.
PubkeyPath(r) ==
    /\ r \in Alive /\ runs[r].pc = "pubkey_path"
    /\ runs' = IF usb_manager.mount_point = NONE
               THEN [runs EXCEPT ![r].pc = "raised"]
               ELSE [runs EXCEPT ![r].pc = "pubkey_io",
                                 ![r].pubkey_path = usb_manager.mount_point]
    /\ UNCHANGED << app, usb_manager, status_bar, info_bar, portfolio,
                    token_details, token_security, tx_panel, device_panel,
                    send_panel, sends, now, others >>

\* The file I/O on that path returns: `exists` is pubkey_path.exists(), and
\* the text read is assigned to self.current_public_key on the worker thread.
ReadPubkey(r, exists) ==
    /\ r \in Alive /\ runs[r].pc = "pubkey_io"
    /\ IF ~exists
       THEN /\ runs' = EndRun(r)
            /\ UNCHANGED app
       ELSE LET pubkey == PubkeyAt(runs[r].pubkey_path)
            IN  /\ app' = [app EXCEPT !.current_public_key = pubkey]
                /\ runs' = [runs EXCEPT ![r].pc = "pubkey_commit",
                                        ![r].pubkey = pubkey]
    /\ UNCHANGED << usb_manager, status_bar, info_bar, portfolio, token_details,
                    token_security, tx_panel, device_panel, send_panel, sends, now,
                    others >>

\* A pipeline that goes on to the balance stage whether or not the network
\* answered: what `if not connected: return` protects against.
UpdatePubkeyGoesOn(r) ==
    /\ r \in Alive /\ runs[r].pc = "pubkey_commit"
    /\ info_bar' = [info_bar EXCEPT !.public_key = runs[r].pubkey]
    /\ portfolio' = [portfolio EXCEPT !.public_key = runs[r].pubkey]
    /\ runs' = [runs EXCEPT ![r].pc = "balance"]
    /\ UNCHANGED << app, usb_manager, status_bar, token_details,
                    token_security, tx_panel, device_panel, send_panel,
                    sends, now, others >>

\* _update_pubkey, handed to the UI thread; then `if not connected: return`.
UpdatePubkey(r) ==
    /\ r \in Alive /\ runs[r].pc = "pubkey_commit"
    /\ info_bar' = [info_bar EXCEPT !.public_key = runs[r].pubkey]
    /\ portfolio' = [portfolio EXCEPT !.public_key = runs[r].pubkey]
    /\ runs' = IF runs[r].connected
               THEN [runs EXCEPT ![r].pc = "balance"]
               ELSE EndRun(r)
    /\ UNCHANGED << app, usb_manager, status_bar, token_details, token_security,
                    tx_panel, device_panel, send_panel, sends, now, others >>

\* balance = self.network.get_balance(pubkey); None ends the run.
FetchBalance(r, result) ==
    /\ r \in Alive /\ runs[r].pc = "balance"
    /\ IF result = << >>
       THEN /\ runs' = EndRun(r)
            /\ UNCHANGED app
       ELSE /\ app' = [app EXCEPT !.current_balance = result[1]]
            /\ runs' = [runs EXCEPT ![r].pc = "balance_commit",
                                    ![r].balance = result[1]]
    /\ UNCHANGED << usb_manager, status_bar, info_bar, portfolio, token_details,
                    token_security, tx_panel, device_panel, send_panel, sends, now,
                    others >>

\* A hand-off that delivers the balance and the token list in one message.
UpdateBalanceBatched(r) ==
    /\ r \in Alive /\ runs[r].pc = "balance_commit"
    /\ info_bar' = [info_bar EXCEPT !.balance = runs[r].balance]
    /\ portfolio' = [portfolio EXCEPT !.sol_balance = runs[r].balance,
                                      !.tokens = runs[r].tokens]
    /\ send_panel' = [send_panel EXCEPT !.current_balance = runs[r].balance]
    /\ token_details' = [token_details EXCEPT !.sol_balance = runs[r].balance]
    /\ runs' = [runs EXCEPT ![r].pc = "tokens"]
    /\ UNCHANGED << app, usb_manager, status_bar, token_security, tx_panel,
                    device_panel, sends, now, others >>

\* _update_balance, handed to the UI thread.
UpdateBalance(r) ==
    /\ r \in Alive /\ runs[r].pc = "balance_commit"
    /\ info_bar' = [info_bar EXCEPT !.balance = runs[r].balance]
    /\ portfolio' = [portfolio EXCEPT !.sol_balance = runs[r].balance]
    /\ send_panel' = [send_panel EXCEPT !.current_balance = runs[r].balance]
    /\ token_details' = [token_details EXCEPT !.sol_balance = runs[r].balance]
    /\ runs' = [runs EXCEPT ![r].pc = "tokens"]
    /\ UNCHANGED << app, usb_manager, status_bar, token_security, tx_panel,
                    device_panel, sends, now, others >>

\* tokens = self.token_fetcher.get_all_token_balances(pubkey)
FetchTokens(r, response) ==
    /\ r \in Alive /\ runs[r].pc = "tokens"
    /\ LET tokens == GetAllTokenBalances(response)
       IN  /\ app' = [app EXCEPT !.current_tokens = tokens]
           /\ runs' = [runs EXCEPT ![r].pc = "tokens_commit",
                                   ![r].tokens = tokens]
    /\ UNCHANGED << usb_manager, status_bar, info_bar, portfolio, token_details,
                    token_security, tx_panel, device_panel, send_panel, sends, now,
                    others >>

\* _apply_token_selection(index): the token the two detail panels show.
\* <<>> is None (the native asset).
SelectedToken(index, current_tokens) ==
    IF index <= 0 THEN << >>
    ELSE IF current_tokens = << >> THEN << >>
    ELSE IF index - 1 >= Len(current_tokens) THEN << current_tokens[1] >>
    ELSE << current_tokens[index] >>

ApplyTokenSelection(index, details) ==
    [selected_token |-> SelectedToken(index, app.current_tokens),
     sol_balance |-> IF index <= 0 THEN app.current_balance
                     ELSE details.sol_balance]

\* The _fetch_security threads this model follows at a time; the answer of a
\* fetch started beyond them is taken never to arrive.
MaxFetches == 2

\* A _fetch_security thread as run_worker starts it, with the mint the lambda
\* closes over.
NewFetch(mint) == [pc |-> "fetch", mint |-> mint, result |-> << >>]

\* TokenSecurityPanel.watch_selected_token, run when the reactive changes:
\* security_data goes back to None and a token with a mint starts a fetch.
WatchSelectedToken(panel, token) ==
    IF token = panel.selected_token THEN panel
    ELSE IF token # << >> /\ token[1].mint # ""
    THEN [panel EXCEPT !.selected_token = token,
                       !.security_data = << >>,
                       !.threads = IF Len(@) < MaxFetches
                                   THEN Append(@, NewFetch(token[1].mint))
                                   ELSE @]
    ELSE [panel EXCEPT !.selected_token = token, !.security_data = << >>]

\* _update_tokens, handed to the UI thread.
UpdateTokens(r) ==
    /\ r \in Alive /\ runs[r].pc = "tokens_commit"
    /\ portfolio' = [portfolio EXCEPT !.tokens = runs[r].tokens]
    /\ token_details' = ApplyTokenSelection(portfolio.selected_index, token_details)
    /\ token_security' = WatchSelectedToken(token_security,
                                            SelectedToken(portfolio.selected_index,
                                                          app.current_tokens))
    /\ runs' = [runs EXCEPT ![r].pc = "txs"]
    /\ UNCHANGED << app, usb_manager, status_bar, info_bar, tx_panel,
                    device_panel, send_panel, sends, now, others >>

\* txs = get_transaction_history(pubkey, 10); an empty answer ends the run,
\* otherwise the entries are enriched.
FetchTxs(r, txs) ==
    /\ r \in Alive /\ runs[r].pc = "txs"
    /\ runs' = IF txs = << >>
               THEN EndRun(r)
               ELSE [runs EXCEPT ![r].pc = "txs_commit",
                                 ![r].txs = EnrichTransactions(txs, runs[r].pubkey)]
    /\ UNCHANGED << app, usb_manager, status_bar, info_bar, portfolio,
                    token_details, token_security, tx_panel, device_panel,
                    send_panel, sends, now, others >>

\* refresh_history ends with self.transactions[self.selected_index]: an
\* IndexError when the list is not empty and the selection lies beyond it.
RefreshHistoryRaises(panel) ==
    panel.transactions # << >> /\ panel.selected_index >= Len(panel.transactions)

\* TransactionHistoryPanel.transactions = txs raises: watch_transactions sets
\* page_size = 5 first, and when that changes the page size, watch_page_size
\* runs refresh_history on the new list with the selection as it was.
WatchTransactionsRaises(panel, txs) ==
    /\ txs # panel.transactions
    /\ panel.page_size # PageSize
    /\ RefreshHistoryRaises([panel EXCEPT !.transactions = txs])

\* TransactionHistoryPanel.transactions = txs: the watcher runs when the value
\* changes, resets the page size and, unless the reset has raised, clamps
\* the selection.
WatchTransactions(panel, txs) ==
    IF txs = panel.transactions THEN panel
    ELSE IF WatchTransactionsRaises(panel, txs)
    THEN [panel EXCEPT !.transactions = txs, !.page_size = PageSize]
    ELSE [transactions |-> txs,
          page_size |-> PageSize,
          selected_index |->
              IF panel.selected_index >= Len(txs)
              THEN (IF Len(txs) - 1 > 0 THEN Len(txs) - 1 ELSE 0)
              ELSE panel.selected_index]

\* _update_txs, handed to the UI thread; the worker returns, or ends with the
\* IndexError that call_from_thread raises again on its thread.
UpdateTxs(r) ==
    /\ r \in Alive /\ runs[r].pc = "txs_commit"
    /\ tx_panel' = WatchTransactions(tx_panel, runs[r].txs)
    /\ runs' = IF WatchTransactionsRaises(tx_panel, runs[r].txs)
               THEN [runs EXCEPT ![r].pc = "raised"]
               ELSE EndRun(r)
    /\ UNCHANGED << app, usb_manager, status_bar, info_bar, portfolio,
                    token_details, token_security, device_panel, send_panel,
                    sends, now, others >>

\* LivePortfolioPanel: the selection among the native asset (0) and the
\* tokens (1..N).

\* selected_index = index: watch_selected_index redraws the portfolio and
\* posts TokenSelected(index), which the event loop delivers later.
WatchSelectedIndex(panel, index) ==
    [panel EXCEPT !.selected_index = index, !.posted = Append(@, index)]

\* Key up: action_select_prev.
ActionSelectPrev ==
    /\ portfolio.selected_index > 0
    /\ portfolio' = WatchSelectedIndex(portfolio, portfolio.selected_index - 1)
    /\ UNCHANGED << app, usb_manager, status_bar, info_bar, token_details,
                    token_security, tx_panel, device_panel, send_panel, runs,
                    sends, now, others >>

\* Key down: action_select_next.
ActionSelectNext ==
    /\ portfolio.selected_index < Len(portfolio.tokens)
    /\ portfolio' = WatchSelectedIndex(portfolio, portfolio.selected_index + 1)
    /\ UNCHANGED << app, usb_manager, status_bar, info_bar, token_details,
                    token_security, tx_panel, device_panel, send_panel, runs,
                    sends, now, others >>

\* on_live_portfolio_panel_token_selected, for the oldest TokenSelected
\* posted: _apply_token_selection(message.index), with the index of the
\* message and the token list the application holds now.
OnLivePortfolioPanelTokenSelected ==
    /\ portfolio.posted # << >>
    /\ LET index == Head(portfolio.posted)
       IN  /\ token_details' = ApplyTokenSelection(index, token_details)
           /\ token_security' =
                 WatchSelectedToken(token_security,
                                    SelectedToken(index, app.current_tokens))
    /\ portfolio' = [portfolio EXCEPT !.posted = Tail(@)]
    /\ UNCHANGED << app, usb_manager, status_bar, info_bar, tx_panel,
                    device_panel, send_panel, runs, sends, now, others >>

\* The TokenSelected messages followed at a time.
MaxPosted == 2

\* The keys of the portfolio.
SelectKeys ==
    \/ ActionSelectPrev /\ Len(portfolio'.posted) <= MaxPosted
    \/ ActionSelectNext /\ Len(portfolio'.posted) <= MaxPosted

\* The keys and the delivery of what they post.
SelectStep ==
    \/ SelectKeys
    \/ OnLivePortfolioPanelTokenSelected

\* The answers the outside world may give: every answer, and the answers of
\* a world whose chain data stay the same.
AnyWorld ==
    [connected |-> BOOLEAN, devices |-> DeviceLists, mounts |-> MountResults,
     exists |-> BOOLEAN, balances |-> BalanceResults, tokens |-> TokenResponses,
     txs |-> TxHistories]

SteadyWorld ==
    [AnyWorld EXCEPT !.balances = { <<20>> },
                     !.tokens = { [raised |-> FALSE, value |-> <<TokX>>] },
                     !.txs = { << [signature |-> "s1"] >> }]

\* The steps _fetch_wallet_data takes on its own thread, and those it hands
\* to the UI thread with call_from_thread.
RefreshWorkerStep(r, world) ==
    \/ \E c \in world.connected : FetchNetwork(r, c)
    \/ GetNetworkInfo(r)
    \/ \E d \in world.devices : DetectUsb(r, d)
    \/ SelectDevice(r)
    \/ Mount(r)
    \/ MountStamp(r)
    \/ \E m \in world.mounts : MountDevice(r, m)
    \/ TestMountPoint(r)
    \/ PubkeyPath(r)
    \/ \E e \in world.exists : ReadPubkey(r, e)
    \/ \E b \in world.balances : FetchBalance(r, b)
    \/ \E t \in world.tokens : FetchTokens(r, t)
    \/ \E h \in world.txs : FetchTxs(r, h)

RefreshHandOff(r) ==
    \/ UpdateNetworkStatus(r)
    \/ UpdateNetworkInfo(r)
    \/ UpdateDevices(r)
    \/ SetModeOffline(r)
    \/ SetModeSelectUsb(r)
    \/ UpdateStatusBar(r)
    \/ UpdatePubkey(r)
    \/ UpdateBalance(r)
    \/ UpdateTokens(r)
    \/ UpdateTxs(r)

\* A world whose devices vary and whose chain data stay the same: the
\* interleavings of MaxRuns refresh threads.
NextRefresh ==
    \/ ActionRefresh(MaxRuns)
    \/ OnLivePortfolioPanelTokenSelected
    \/ \E r \in 1..MaxRuns : RefreshWorkerStep(r, SteadyWorld)
    \/ \E r \in 1..MaxRuns : RefreshHandOff(r)

SpecRefresh == Init /\ [][NextRefresh]_vars

\* A world with one mounted device (or none) whose network and chain data
\* vary: every outcome of the data stages.
DataWorld == [AnyWorld EXCEPT !.devices = { << >>, <<DevA>> }]

NextData ==
    \/ ActionRefresh(DataRuns)
    \/ OnLivePortfolioPanelTokenSelected
    \/ \E r \in 1..DataRuns :
        \/ \E c \in DataWorld.connected : FetchNetwork(r, c)
        \/ UpdateNetworkStatus(r)
        \/ GetNetworkInfo(r)
        \/ UpdateNetworkInfo(r)
        \/ \E d \in DataWorld.devices : DetectUsb(r, d)
        \/ UpdateDevices(r)
        \/ SetModeOffline(r)
        \/ SelectDevice(r)
        \/ Mount(r)
        \/ UpdateStatusBar(r)
        \/ TestMountPoint(r)
        \/ PubkeyPath(r)
        \/ \E e \in DataWorld.exists : ReadPubkey(r, e)
        \/ UpdatePubkey(r)
        \/ \E b \in DataWorld.balances : FetchBalance(r, b)
        \/ UpdateBalance(r)
        \/ \E t \in DataWorld.tokens : FetchTokens(r, t)
        \/ UpdateTokens(r)
        \/ \E h \in DataWorld.txs : FetchTxs(r, h)
        \/ UpdateTxs(r)

SpecData == Init /\ [][NextData]_vars

------------------------------------------------------------------------------
\* The device vanishes while the refresh reads the public key.

\* pubkey_path.exists() was True and pubkey_path.read_text() raises: nothing
\* in _fetch_wallet_data catches it and the thread ends with the exception.
ReadPubkeyRaises(r) ==
    /\ r \in Alive /\ runs[r].pc = "pubkey_io"
    /\ runs' = [runs EXCEPT ![r].pc = "raised"]
    /\ UNCHANGED << app, usb_manager, status_bar, info_bar, portfolio,
                    token_details, token_security, tx_panel, device_panel,
                    send_panel, sends, now, others >>

NextVanish ==
    \/ NextData
    \/ \E r \in 1..DataRuns : ReadPubkeyRaises(r)

SpecVanish == Init /\ [][NextVanish]_vars

------------------------------------------------------------------------------
\* The user at the device panel.

\* DevicePanel binds up and down to select_prev and select_next and defines
\* neither action (they are methods of NetworkPanel, with the DeviceSelected
\* message): the key finds no action to run and nothing changes.
DevicePanelKey(key) ==
    /\ key \in { "up", "down" }
    /\ UNCHANGED vars

\* One refresh thread at a time in a world whose devices vary, and the user
\* pressing the keys of the device panel.
NextChoice ==
    \/ ActionRefresh(DataRuns)
    \/ OnLivePortfolioPanelTokenSelected
    \/ \E key \in { "up", "down" } : DevicePanelKey(key)
    \/ \E r \in 1..DataRuns : RefreshWorkerStep(r, SteadyWorld)
    \/ \E r \in 1..DataRuns : RefreshHandOff(r)

SpecChoice == Init /\ [][NextChoice]_vars

------------------------------------------------------------------------------
\* The mount rate limit: time passes between the steps of the refresh threads.

\* time.time() advances by a second, up to MaxTime.
Tick ==
    /\ now < MaxTime
    /\ now' = now + 1
    /\ UNCHANGED << app, usb_manager, status_bar, info_bar, portfolio,
                    token_details, token_security, tx_panel, device_panel,
                    send_panel, runs, sends, others >>

\* A world with one device, mounted or not, whose mount may fail, and no
\* wallet on it: the refresh threads up to the mount and the status bar.
\* The network is down, so no run asks for get_network_info.
MountWorld ==
    [AnyWorld EXCEPT !.connected = { FALSE },
                     !.devices = { <<DevA>>, <<DevB>> },
                     !.exists = { FALSE }]

NextMount ==
    \/ ActionRefresh(MaxRuns)
    \/ OnLivePortfolioPanelTokenSelected
    \/ Tick
    \/ \E r \in 1..MaxRuns :
        \/ \E c \in MountWorld.connected : FetchNetwork(r, c)
        \/ UpdateNetworkStatus(r)
        \/ \E d \in MountWorld.devices : DetectUsb(r, d)
        \/ UpdateDevices(r)
        \/ SelectDevice(r)
        \/ Mount(r)
        \/ MountStamp(r)
        \/ \E m \in MountWorld.mounts : MountDevice(r, m)
        \/ UpdateStatusBar(r)
        \/ TestMountPoint(r)
        \/ PubkeyPath(r)
        \/ \E e \in MountWorld.exists : ReadPubkey(r, e)

SpecMount == Init /\ [][NextMount]_vars

------------------------------------------------------------------------------
\* The choice of a device among several.

\* on_device_panel_device_selected, for a DeviceSelected message of DevicePanel
\* carrying `index`.  No such message exists: the class DeviceSelected and
\* the actions that post it are members of NetworkPanel, which has no key
\* bindings, so the handler is never called and is a step of no
\* specification below.
OnDevicePanelDeviceSelected(index, limit) ==
    /\ app' = [app EXCEPT !.selected_device_index = Index(index)]
    /\ RefreshData(limit)
    /\ UNCHANGED << usb_manager, info_bar, portfolio, token_details,
                    token_security, tx_panel, device_panel, send_panel,
                    sends, now, others >>

------------------------------------------------------------------------------
\* The refreshes of SpecData beside a user who moves the selection.
NextSelect ==
    \/ NextData
    \/ SelectKeys

SpecSelect == Init /\ [][NextSelect]_vars

------------------------------------------------------------------------------
\* LiveSendPanel: the draft, the gate of the Send button and the confirm step.

\* What the user may type; the texts are given without surrounding
\* whitespace, on which strip() changes nothing.
AddressInputs == { "", "bad", "Dest" }
AmountInputs == { "", "abc", "nan", "0", "0.000005", "0.00002" }
PasswordInputs == { "", "pw" }

\* wallet_manager.validate_address(to)
ValidateAddress(to) == to = "Dest"

\* float(amount_str): ValueError (ok = FALSE), NaN, or the double nearest to
\* a number v of micro-SOL.  `ulp` tells a double that is not such a nearest
\* double from it: 1 when it lies just above the one of v, -1 just below.
ParseFloat(amount_str) ==
    CASE amount_str = "nan" -> [ok |-> TRUE, nan |-> TRUE, v |-> 0, ulp |-> 0]
      [] amount_str = "0" -> [ok |-> TRUE, nan |-> FALSE, v |-> 0, ulp |-> 0]
      [] amount_str = "0.000005" -> [ok |-> TRUE, nan |-> FALSE, v |-> 5, ulp |-> 0]
      [] amount_str = "0.00002" -> [ok |-> TRUE, nan |-> FALSE, v |-> 20, ulp |-> 0]
      [] amount_str = "0.000000000" -> [ok |-> TRUE, nan |-> FALSE, v |-> 0, ulp |-> 0]
      [] amount_str = "0.000005000" -> [ok |-> TRUE, nan |-> FALSE, v |-> 5, ulp |-> 0]
      [] amount_str = "0.000010000" -> [ok |-> TRUE, nan |-> FALSE, v |-> 10, ulp |-> 0]
      [] amount_str = "0.000015000" -> [ok |-> TRUE, nan |-> FALSE, v |-> 15, ulp |-> 0]
      [] amount_str = "1.0" -> [ok |-> TRUE, nan |-> FALSE, v |-> 1000000, ulp |-> 0]
      [] amount_str = "1.5" -> [ok |-> TRUE, nan |-> FALSE, v |-> 1500000, ulp |-> 0]
      [] amount_str = "3" -> [ok |-> TRUE, nan |-> FALSE, v |-> 3000000, ulp |-> 0]
      [] OTHER -> [ok |-> FALSE, nan |-> FALSE, v |-> 0, ulp |-> 0]

\* Comparisons of a float with the double nearest to n micro-SOL: every
\* comparison with NaN is False.
FloatLe(x, n) == ~x.nan /\ (x.v < n \/ (x.v = n /\ x.ulp <= 0))
FloatGt(x, n) == ~x.nan /\ (x.v > n \/ (x.v = n /\ x.ulp > 0))

\* amount + fee in double arithmetic: for these amounts, of those up to 40
\* micro-SOL, the sum with 0.000005 is not the double nearest to the decimal
\* sum but the one above it (0.00001 + 0.000005 = 1.5000000000000002e-05) or
\* below it; for the others, and for 1, 1.5 and 3 SOL, it is the nearest.
SumsAbove == { 2, 3, 8, 9, 10, 30 }
SumsBelow == { 35 }
FloatAdd(x, n) ==
    [x EXCEPT !.v = @ + n,
              !.ulp = IF x.nan \/ n # Fee THEN 0
                      ELSE IF x.v \in SumsAbove THEN 1
                      ELSE IF x.v \in SumsBelow THEN -1
                      ELSE 0]

\* update_review: the review line under the inputs.
UpdateReview(to, amount_str) ==
    IF amount_str # "" /\ ~ParseFloat(amount_str).ok THEN "Invalid amount"
    ELSE IF to # "" /\ amount_str # "" /\ FloatGt(ParseFloat(amount_str), 0)
    THEN "review line"
    ELSE "Fill in address and amount below"

\* _show_confirm_step: the message of the first gate that fails, "" if none.
ShowConfirmGate(to, amount_str, current_balance) ==
    IF to = "" \/ amount_str = "" THEN "Fill in address and amount first"
    ELSE IF ~ValidateAddress(to) THEN "Invalid recipient address"
    ELSE IF ~ParseFloat(amount_str).ok THEN "Invalid amount"
    ELSE IF FloatLe(ParseFloat(amount_str), 0) THEN "Amount must be greater than 0"
    ELSE IF FloatGt(FloatAdd(ParseFloat(amount_str), Fee), current_balance)
    THEN "Insufficient balance (amount + fee)"
    ELSE ""

\* on_live_send_panel_send_requested: the message of the first check that
\* fails, "" if none.
SendRequestedGate(password, to, amount_str, current_balance, mount_point, public_key) ==
    IF password = "" THEN "Enter your wallet password above"
    ELSE IF ~ValidateAddress(to) THEN "Error: Invalid recipient address"
    ELSE IF ~ParseFloat(amount_str).ok THEN "Error: Invalid amount"
    ELSE IF FloatGt(FloatAdd(ParseFloat(amount_str), Fee), current_balance)
    THEN "Error: Insufficient balance (amount + fee)"
    ELSE IF mount_point = NONE THEN "Error: No wallet mounted"
    ELSE IF public_key = NONE THEN "Error: No wallet public key found"
    ELSE ""

\* _hide_confirm_step
HideConfirmStep(panel) ==
    [panel EXCEPT !.confirming = FALSE, !.wallet_password = ""]

\* The user edits the address: the Input takes the value and posts
\* Input.Changed, which the event loop delivers later.
EditAddress(value) ==
    /\ value # send_panel.to_address
    /\ send_panel' = [send_panel EXCEPT !.to_address = value,
                                        !.changed = @ + 1]
    /\ UNCHANGED << app, usb_manager, status_bar, info_bar, portfolio,
                    token_details, token_security, tx_panel, device_panel,
                    runs, sends, now, others >>

\* The user edits the amount, in the same way.
EditAmount(value) ==
    /\ value # send_panel.amount_input
    /\ send_panel' = [send_panel EXCEPT !.amount_input = value,
                                        !.changed = @ + 1]
    /\ UNCHANGED << app, usb_manager, status_bar, info_bar, portfolio,
                    token_details, token_security, tx_panel, device_panel,
                    runs, sends, now, others >>

\* on_input_changed for an Input.Changed of the address or the amount:
\* update_review writes the review line from the inputs as they are now.
OnInputChanged ==
    /\ send_panel.changed > 0
    /\ send_panel' = [send_panel EXCEPT
                        !.changed = @ - 1,
                        !.review = UpdateReview(send_panel.to_address,
                                                send_panel.amount_input)]
    /\ UNCHANGED << app, usb_manager, status_bar, info_bar, portfolio,
                    token_details, token_security, tx_panel, device_panel,
                    runs, sends, now, others >>

\* The buttons 25%, 50%, 75% and MAX: the share of the panel's balance, or
\* the balance less the fee and not below 0, in micro-SOL (the balances of
\* this model are multiples of 4, so that every share is whole).
Shares == { "btn-25", "btn-50", "btn-75", "btn-max" }

ShareOf(button, current_balance) ==
    CASE button = "btn-25" -> current_balance \div 4
      [] button = "btn-50" -> current_balance \div 2
      [] button = "btn-75" -> (current_balance * 3) \div 4
      [] OTHER -> IF current_balance - Fee > 0 THEN current_balance - Fee ELSE 0

\* f"{amount:.9f}" for the amounts the buttons give in this model.
FormatAmount(amount) ==
    CASE amount = 0 -> "0.000000000"
      [] amount = 5 -> "0.000005000"
      [] amount = 10 -> "0.000010000"
      [] OTHER -> "0.000015000"

\* set_amount: the amount input takes the text, which posts Input.Changed
\* when it differs, and update_review runs at once.
SetAmount(button) ==
    /\ LET text == FormatAmount(ShareOf(button, send_panel.current_balance))
       IN  send_panel' = [send_panel EXCEPT
                            !.amount_input = text,
                            !.changed = IF text # send_panel.amount_input
                                        THEN @ + 1 ELSE @,
                            !.review = UpdateReview(send_panel.to_address, text)]
    /\ UNCHANGED << app, usb_manager, status_bar, info_bar, portfolio,
                    token_details, token_security, tx_panel, device_panel,
                    runs, sends, now, others >>

\* The user types the password in the confirm step.
EditPassword(value) ==
    /\ send_panel.confirming
    /\ value # send_panel.wallet_password
    /\ send_panel' = [send_panel EXCEPT !.wallet_password = value]
    /\ UNCHANGED << app, usb_manager, status_bar, info_bar, portfolio,
                    token_details, token_security, tx_panel, device_panel,
                    runs, sends, now, others >>

\* btn-send: _show_confirm_step.
PressSend ==
    /\ LET message == ShowConfirmGate(send_panel.to_address,
                                      send_panel.amount_input,
                                      send_panel.current_balance)
       IN  send_panel' = IF message # ""
                         THEN [send_panel EXCEPT !.review = message]
                         ELSE [send_panel EXCEPT !.confirming = TRUE,
                                                 !.confirm_summary = "Confirm Transaction"]
    /\ UNCHANGED << app, usb_manager, status_bar, info_bar, portfolio,
                    token_details, token_security, tx_panel, device_panel,
                    runs, sends, now, others >>

\* btn-back: _hide_confirm_step.
PressBack ==
    /\ send_panel.confirming
    /\ send_panel' = HideConfirmStep(send_panel)
    /\ UNCHANGED << app, usb_manager, status_bar, info_bar, portfolio,
                    token_details, token_security, tx_panel, device_panel,
                    runs, sends, now, others >>

\* btn-cancel ("Clear"): clear_form empties the two inputs, each of which
\* posts Input.Changed when it held a text, and writes the review line.
PressClear ==
    /\ send_panel' = [HideConfirmStep(send_panel) EXCEPT
                        !.to_address = "", !.amount_input = "",
                        !.changed = @ + (IF send_panel.to_address # "" THEN 1 ELSE 0)
                                      + (IF send_panel.amount_input # "" THEN 1 ELSE 0),
                        !.review = "Fill in address and amount below"]
    /\ UNCHANGED << app, usb_manager, status_bar, info_bar, portfolio,
                    token_details, token_security, tx_panel, device_panel,
                    runs, sends, now, others >>

\* A _do_send thread as run_worker starts it, with the arguments the lambda
\* closes over.  `gate` is no variable of the worker: it keeps what the gate
\* of on_live_send_panel_send_requested read, for comparison with what the
\* worker reads later.
NewSend(to_addr, amount, password) ==
    [pc |-> "start", to_addr |-> to_addr, amount |-> amount,
     password |-> password, keypair_path |-> NONE, from_pubkey |-> NONE,
     outcome |-> "ok",
     gate |-> [public_key |-> app.current_public_key,
               mount_point |-> usb_manager.mount_point]]

\* btn-confirm, a button of the confirm step: SendRequested is posted.
PressConfirm ==
    /\ send_panel.confirming
    /\ send_panel' = [send_panel EXCEPT !.requested = @ + 1]
    /\ UNCHANGED << app, usb_manager, status_bar, info_bar, portfolio,
                    token_details, token_security, tx_panel, device_panel,
                    runs, sends, now, others >>

\* on_live_send_panel_send_requested, when the event loop delivers the
\* message: the gate on the inputs as they are now, whether or not the
\* confirm step is still shown, then run_worker without `exclusive` and
\* without a look at the workers that are running.
OnLiveSendPanelSendRequested ==
    /\ send_panel.requested > 0
    /\ LET panel == [send_panel EXCEPT !.requested = @ - 1]
           message == SendRequestedGate(send_panel.wallet_password,
                                        send_panel.to_address,
                                        send_panel.amount_input,
                                        app.current_balance,
                                        usb_manager.mount_point,
                                        app.current_public_key)
       IN  IF message = "Enter your wallet password above"
           THEN /\ send_panel' = [panel EXCEPT !.confirm_summary = message]
                /\ UNCHANGED sends
           ELSE IF message # ""
           THEN /\ send_panel' = [panel EXCEPT !.review = message]
                /\ UNCHANGED sends
           ELSE /\ send_panel' = [HideConfirmStep(panel) EXCEPT
                                     !.review = "Sending..."]
                /\ sends' = Append(sends,
                                   NewSend(send_panel.to_address,
                                           ParseFloat(send_panel.amount_input),
                                           send_panel.wallet_password))
    /\ UNCHANGED << app, usb_manager, status_bar, info_bar, portfolio,
                    token_details, token_security, tx_panel, device_panel,
                    runs, now, others >>

------------------------------------------------------------------------------
\* ColdstarLiveWallet._do_send, the worker thread of one send attempt.  Each
\* step is one call of the worker followed by the review.update it hands to
\* the UI thread.

\* What a call of the network, the transaction builder or the signer may do:
\* return a value, return None, or raise.
Outcomes == { "ok", "none", "raised" }

SendThreads == 1..Len(sends)

\* The worker thread returns: its frame, with the password, is gone.
EndSend(w) ==
    [i \in 1..(Len(sends) - 1) |-> IF i < w THEN sends[i] ELSE sends[i + 1]]

\* A worker that shows the failure of a call that returned None and goes on
\* all the same: what the `return` after each error message protects against.
SendStepGoesOn(w, outcome, pc, message, failure) ==
    /\ send_panel' = [send_panel EXCEPT !.review =
                        IF outcome = "ok" THEN message
                        ELSE IF outcome = "none" THEN failure
                        ELSE "Error: exception"]
    /\ sends' = IF outcome = "raised" THEN EndSend(w)
                ELSE [sends EXCEPT ![w].pc = pc]

\* A step of worker w: it goes on at `pc` or returns, and the review box
\* shows `message`, the failure of a call that returned None, or the text of
\* the exception caught by `except Exception`.
SendStep(w, outcome, pc, message, failure) ==
    /\ send_panel' = [send_panel EXCEPT !.review =
                        IF outcome = "ok" THEN message
                        ELSE IF outcome = "none" THEN failure
                        ELSE "Error: exception"]
    /\ sends' = IF outcome = "ok" THEN [sends EXCEPT ![w].pc = pc]
                ELSE EndSend(w)

\* keypair_path = Path(self.usb_manager.mount_point) / ... on the worker
\* thread: it raises when the mount point is None.
SendStart(w) ==
    /\ w \in SendThreads /\ sends[w].pc = "start"
    /\ sends' = [sends EXCEPT
                    ![w].pc = "start_commit",
                    ![w].keypair_path = usb_manager.mount_point,
                    ![w].outcome = IF usb_manager.mount_point = NONE
                                   THEN "raised" ELSE "ok"]
    /\ UNCHANGED << app, usb_manager, status_bar, info_bar, portfolio,
                    token_details, token_security, tx_panel, device_panel,
                    send_panel, runs, now, others >>

\* The hand-off that follows: "Fetching blockhash...", or the text of the
\* exception, with which the worker returns.
SendStartCommit(w) ==
    /\ w \in SendThreads /\ sends[w].pc = "start_commit"
    /\ SendStep(w, sends[w].outcome, "blockhash", "Fetching blockhash...", "")
    /\ UNCHANGED << app, usb_manager, status_bar, info_bar, portfolio,
                    token_details, token_security, tx_panel, device_panel,
                    runs, now, others >>

\* Step 1: get_latest_blockhash.
SendBlockhash(w, outcome) ==
    /\ w \in SendThreads /\ sends[w].pc = "blockhash"
    /\ SendStep(w, outcome, "build", "Building transaction...",
                "Error: Could not get blockhash")
    /\ UNCHANGED << app, usb_manager, status_bar, info_bar, portfolio,
                    token_details, token_security, tx_panel, device_panel,
                    runs, now, others >>

\* Step 2: create_transfer_transaction(self.current_public_key, to_addr, ...)
\* on the worker thread, with the public key the session holds at the call.
SendBuild(w, outcome) ==
    /\ w \in SendThreads /\ sends[w].pc = "build"
    /\ sends' = [sends EXCEPT ![w].pc = "build_commit",
                              ![w].from_pubkey = app.current_public_key,
                              ![w].outcome = outcome]
    /\ UNCHANGED << app, usb_manager, status_bar, info_bar, portfolio,
                    token_details, token_security, tx_panel, device_panel,
                    send_panel, runs, now, others >>

\* The hand-off that follows: "Loading wallet container...", or the failure,
\* with which the worker returns.
SendBuildCommit(w) ==
    /\ w \in SendThreads /\ sends[w].pc = "build_commit"
    /\ SendStep(w, sends[w].outcome, "load", "Loading wallet container...",
                "Error: Could not build transaction")
    /\ UNCHANGED << app, usb_manager, status_bar, info_bar, portfolio,
                    token_details, token_security, tx_panel, device_panel,
                    runs, now, others >>

\* Step 3: load_encrypted_container(keypair_path, password); a device that
\* is gone makes it return None or raise.
SendLoad(w, outcome) ==
    /\ w \in SendThreads /\ sends[w].pc = "load"
    /\ SendStep(w, outcome, "sign", "Signing (Rust secure memory)...",
                "Error: Could not load wallet (wrong password?)")
    /\ UNCHANGED << app, usb_manager, status_bar, info_bar, portfolio,
                    token_details, token_security, tx_panel, device_panel,
                    runs, now, others >>

\* Step 4: sign_transaction_secure(unsigned_tx, container, password).
SendSign(w, outcome) ==
    /\ w \in SendThreads /\ sends[w].pc = "sign"
    /\ SendStep(w, outcome, "broadcast", "Broadcasting...",
                "Error: Signing failed (wrong password?)")
    /\ UNCHANGED << app, usb_manager, status_bar, info_bar, portfolio,
                    token_details, token_security, tx_panel, device_panel,
                    runs, now, others >>

\* Step 5: send_transaction; a signature is shown shortened and the worker
\* sleeps 2 s, a rejection or an exception ends it.
SendBroadcast(w, outcome) ==
    /\ w \in SendThreads /\ sends[w].pc = "broadcast"
    /\ SendStep(w, outcome, "sleep", "Sent! Sig: ...",
                "Transaction rejected by network")
    /\ UNCHANGED << app, usb_manager, status_bar, info_bar, portfolio,
                    token_details, token_security, tx_panel, device_panel,
                    runs, now, others >>

\* A worker that returns after the sleep without asking for a refresh.
SendResyncSkips(w, limit) ==
    /\ w \in SendThreads /\ sends[w].pc = "sleep"
    /\ sends' = EndSend(w)
    /\ UNCHANGED << app, usb_manager, status_bar, info_bar, portfolio,
                    token_details, token_security, tx_panel, device_panel,
                    send_panel, runs, now, others >>

\* After the sleep: call_from_thread(self.refresh_data); the worker returns.
SendResync(w, limit) ==
    /\ w \in SendThreads /\ sends[w].pc = "sleep"
    /\ RefreshData(limit)
    /\ sends' = EndSend(w)
    /\ UNCHANGED << app, usb_manager, info_bar, portfolio, token_details,
                    token_security, tx_panel, device_panel, send_panel, now,
                    others >>

\* The steps of _do_send before the broadcast: the Signing stage.
SigningStep(w, outcome) ==
    \/ SendStart(w)
    \/ SendStartCommit(w)
    \/ SendBlockhash(w, outcome)
    \/ SendBuild(w, outcome)
    \/ SendBuildCommit(w)
    \/ SendLoad(w, outcome)
    \/ SendSign(w, outcome)

\* The state of the send flow, as the panel and the workers show it.
SigningPcs ==
    { "start", "start_commit", "blockhash", "build", "build_commit", "load",
      "sign" }
ResultMessages == { "Sent! Sig: ...", "Transaction rejected by network" }

FlowState ==
    IF send_panel.confirming THEN "Confirming"
    ELSE IF \E w \in SendThreads : sends[w].pc \in SigningPcs THEN "Signing"
    ELSE IF \E w \in SendThreads : sends[w].pc = "broadcast" THEN "Broadcasting"
    ELSE IF send_panel.review \in ResultMessages THEN "Result"
    ELSE "Draft"

\* The messages followed at a time: Input.Changed of the address and amount
\* inputs, and SendRequested.
MaxChanged == 2
MaxRequested == 1

\* The user types addresses and amounts of the given sets, and the event
\* loop delivers the Input.Changed they post.
DraftStep(addresses, amounts) ==
    \/ \E v \in addresses : EditAddress(v) /\ send_panel'.changed <= MaxChanged
    \/ \E v \in amounts : EditAmount(v) /\ send_panel'.changed <= MaxChanged
    \/ OnInputChanged

\* The user presses one of the share buttons.
ShareStep ==
    \E button \in Shares : SetAmount(button) /\ send_panel'.changed <= MaxChanged

\* The buttons Send, Go Back and Clear, and the password.
GateStep ==
    \/ \E v \in PasswordInputs : EditPassword(v)
    \/ PressSend
    \/ PressBack
    \/ PressClear /\ send_panel'.changed <= MaxChanged

\* The button Confirm Send and the delivery of SendRequested, with at most
\* `limit` send workers alive.
RequestStep(limit) ==
    \/ PressConfirm /\ send_panel'.requested <= MaxRequested
    \/ OnLiveSendPanelSendRequested /\ Len(sends') <= limit

\* The buttons and the password of the panel.
ConfirmStep(limit) ==
    \/ GateStep
    \/ RequestStep(limit)

\* All that happens at the send panel.
UserStep(addresses, amounts, limit) ==
    \/ DraftStep(addresses, amounts)
    \/ ShareStep
    \/ ConfirmStep(limit)

\* A step of the send worker w, whatever its calls return.
SendWorkerStep(w, limit) ==
    \/ \E o \in Outcomes : SigningStep(w, o)
    \/ \E o \in Outcomes : SendBroadcast(w, o)
    \/ SendResync(w, limit)

\* The wallet as a first complete refresh leaves it in that world: device
\* mounted, public key read, balance, tokens and transactions committed;
\* the send panel holds the draft the user has typed, with its review line.
LoadedSession(to_address, amount_input) ==
    /\ app = [current_public_key |-> "KeyA", current_balance |-> 20,
              current_tokens |-> <<TokX>>, detected_devices |-> <<DevA>>,
              selected_device_index |-> Index(0), last_mount_attempt |-> 0,
              did_unmount |-> FALSE, exited |-> FALSE]
    /\ usb_manager = [mount_point |-> "/mnt/a"]
    /\ status_bar = [mode |-> "READY", network_status |-> "Connected"]
    /\ info_bar = [balance |-> 20, public_key |-> "KeyA"]
    /\ portfolio = [sol_balance |-> 20, tokens |-> <<TokX>>,
                    public_key |-> "KeyA", selected_index |-> 0,
                    posted |-> << >>]
    /\ token_details = [selected_token |-> << >>, sol_balance |-> 20]
    /\ token_security = [selected_token |-> << >>, security_data |-> << >>,
                         threads |-> << >>]
    /\ tx_panel = [transactions |->
                      EnrichTransactions(<< [signature |-> "s1"] >>, "KeyA"),
                   page_size |-> PageSize, selected_index |-> 0]
    /\ device_panel = [devices |-> <<DevA>>, selected_index |-> NoIndex]
    /\ send_panel = [current_balance |-> 20, confirming |-> FALSE,
                     to_address |-> to_address,
                     amount_input |-> amount_input,
                     wallet_password |-> "",
                     review |-> UpdateReview(to_address, amount_input),
                     confirm_summary |-> "", changed |-> 0, requested |-> 0]
    /\ runs = << >>
    /\ sends = << >>
    /\ now = MountInterval + 1

InitLoaded == LoadedSession("", "") /\ InitOthers

\* The draft and the gate of the Send button on a loaded wallet: the user
\* types any of the inputs, presses the share buttons, Send, Go Back and
\* Clear.
NextGate ==
    \/ DraftStep(AddressInputs, AmountInputs)
    \/ ShareStep
    \/ GateStep

SpecGate == InitLoaded /\ [][NextGate]_vars

\* The send flow on a loaded wallet: the user types a destination and an
\* amount that is zero, not a number or a valid transfer, and presses any
\* button of the panel; the send workers run, and the refresh a sent
\* transfer asks for finds the device unplugged.
NextSend ==
    \/ UserStep({ "Dest" }, { "0", "nan", "0.000005" }, MaxSends)
    \/ \E w \in 1..MaxSends : SendWorkerStep(w, SendRuns)
    \/ \E r \in 1..SendRuns :
        \/ FetchNetwork(r, TRUE)
        \/ UpdateNetworkStatus(r)
        \/ GetNetworkInfo(r)
        \/ UpdateNetworkInfo(r)
        \/ DetectUsb(r, << >>)
        \/ UpdateDevices(r)
        \/ SetModeOffline(r)

SpecSend == InitLoaded /\ [][NextSend]_vars

\* The same with a valid transfer typed into the draft.
InitTyped == LoadedSession("Dest", "0.000005") /\ InitOthers

\* The user sends the draft as it stands: Send, the password, Confirm Send,
\* and the delivery of SendRequested, with at most `limit` workers alive.
SubmitStep(limit) ==
    \/ \E v \in PasswordInputs : EditPassword(v)
    \/ PressSend
    \/ RequestStep(limit)

\* The send attempts on a loaded wallet with a typed draft: the user sends
\* it, the send workers run, and the refresh a sent transfer asks for finds
\* the device unplugged.
NextAttempt ==
    \/ SubmitStep(MaxSends)
    \/ \E w \in 1..MaxSends : SendWorkerStep(w, SendRuns)
    \/ \E r \in 1..SendRuns :
        \/ FetchNetwork(r, TRUE)
        \/ UpdateNetworkStatus(r)
        \/ GetNetworkInfo(r)
        \/ UpdateNetworkInfo(r)
        \/ DetectUsb(r, << >>)
        \/ UpdateDevices(r)
        \/ SetModeOffline(r)

SpecAttempt == InitTyped /\ [][NextAttempt]_vars

\* Two transfers confirmed one after the other on a loaded wallet: nothing
\* but the number of threads of this model stands between a second confirm
\* and a second _do_send worker.
MaxInFlight == 2

NextFlight ==
    \/ DraftStep({ "Dest" }, { "0.000005" })
    \/ ConfirmStep(MaxInFlight)
    \/ \E w \in 1..MaxInFlight : SendWorkerStep(w, SendRuns)
    \/ \E r \in 1..SendRuns :
        \/ FetchNetwork(r, TRUE)
        \/ UpdateNetworkStatus(r)
        \/ GetNetworkInfo(r)
        \/ UpdateNetworkInfo(r)
        \/ DetectUsb(r, << >>)
        \/ UpdateDevices(r)
        \/ SetModeOffline(r)

SpecFlight == InitLoaded /\ [][NextFlight]_vars

\* One transfer confirmed on a loaded wallet while the device is exchanged:
\* the refresh of the timer finds another device in the place of the first,
\* mounts it and reads its public key, beside the send worker.
SwitchWorld ==
    [SteadyWorld EXCEPT !.connected = { TRUE }, !.devices = { <<DevB>> },
                        !.mounts = { "/mnt/b" }, !.exists = { TRUE }]

NextSwitch ==
    \/ DraftStep({ "Dest" }, { "0.000005" })
    \/ ConfirmStep(MaxSends)
    \/ \E w \in 1..MaxSends : SendWorkerStep(w, SendRuns)
    \/ ActionRefresh(SendRuns)
    \/ \E r \in 1..SendRuns :
        \/ \E c \in SwitchWorld.connected : FetchNetwork(r, c)
        \/ UpdateNetworkStatus(r)
        \/ GetNetworkInfo(r)
        \/ UpdateNetworkInfo(r)
        \/ \E d \in SwitchWorld.devices : DetectUsb(r, d)
        \/ UpdateDevices(r)
        \/ SelectDevice(r)
        \/ Mount(r)
        \/ MountStamp(r)
        \/ \E m \in SwitchWorld.mounts : MountDevice(r, m)
        \/ UpdateStatusBar(r)
        \/ TestMountPoint(r)
        \/ PubkeyPath(r)
        \/ \E e \in SwitchWorld.exists : ReadPubkey(r, e)
        \/ UpdatePubkey(r)
        \/ \E b \in SwitchWorld.balances : FetchBalance(r, b)
        \/ UpdateBalance(r)
        \/ \E t \in SwitchWorld.tokens : FetchTokens(r, t)
        \/ UpdateTokens(r)
        \/ \E h \in SwitchWorld.txs : FetchTxs(r, h)
        \/ UpdateTxs(r)

SpecSwitch == InitLoaded /\ [][NextSwitch]_vars

\* The worker thread wakes from time.sleep(2) and the UI thread serves
\* call_from_thread; the refresh threads run on.
FairAttempt ==
    /\ WF_vars(\E w \in 1..MaxSends : SendResync(w, SendRuns))
    /\ WF_vars(\E r \in 1..SendRuns :
                  \/ FetchNetwork(r, TRUE)
                  \/ UpdateNetworkStatus(r)
                  \/ GetNetworkInfo(r)
                  \/ UpdateNetworkInfo(r)
                  \/ DetectUsb(r, << >>)
                  \/ UpdateDevices(r)
                  \/ SetModeOffline(r))

\* The same steps, for the fair behaviours.
NextResync ==
    \/ SubmitStep(MaxSends)
    \/ \E w \in 1..MaxSends : SendWorkerStep(w, SendRuns)
    \/ \E r \in 1..SendRuns :
        \/ FetchNetwork(r, TRUE)
        \/ UpdateNetworkStatus(r)
        \/ GetNetworkInfo(r)
        \/ UpdateNetworkInfo(r)
        \/ DetectUsb(r, << >>)
        \/ UpdateDevices(r)
        \/ SetModeOffline(r)

LiveResync == InitTyped /\ [][NextResync]_vars /\ FairAttempt


------------------------------------------------------------------------------
\* TransactionHistoryPanel's paging and the load-more worker.

\* The ledger's signatures, oldest first; a signature's age is its place.
Ledger == << "s1", "s2", "s3", "s4", "s5", "s6", "s7", "s8", "s9", "s10",
             "s11", "s12" >>
Age(signature) == CHOOSE i \in 1..Len(Ledger) : Ledger[i] = signature

\* The raw entries from the one of age `newest` down to age `oldest`,
\* newest first, as getSignaturesForAddress lists them.
Sigs(newest, oldest) ==
    [i \in 1..(newest - oldest + 1) |-> [signature |-> Ledger[newest + 1 - i]]]

\* get_transaction_history(pubkey, 10) now and one transaction earlier.
RefreshLimit == 10
MoreHistories ==
    { Sigs(Len(Ledger), Len(Ledger) - RefreshLimit + 1),
      Sigs(Len(Ledger) - 1, Len(Ledger) - RefreshLimit) }

\* The answers to getSignaturesForAddress(limit 10, before): the request
\* raises, or the page holds entries strictly older than the cursor, none
\* twice: all of them or none.
MoreLimit == 10
MorePages(before_sig) ==
    LET a == Age(before_sig)
        low == IF a - MoreLimit > 1 THEN a - MoreLimit ELSE 1
    IN  { [raised |-> TRUE, result |-> << >>],
          [raised |-> FALSE, result |-> << >>] }
        \cup (IF a > 1
              THEN { [raised |-> FALSE, result |-> Sigs(a - 1, low)] }
              ELSE { })

MoreThreads == 1..Len(mores)
EndMore(m) == [i \in 1..(Len(mores) - 1) |-> IF i < m THEN mores[i] ELSE mores[i + 1]]
NewMore == [pc |-> "posted", before_sig |-> NONE, existing |-> << >>,
            combined |-> << >>]

\* TransactionHistoryPanel.action_select_prev (the watcher's refresh_history
\* raises after the assignment when the selection is still beyond the list).
TxSelectPrev ==
    /\ tx_panel.selected_index > 0
    /\ tx_panel' = [tx_panel EXCEPT !.selected_index = @ - 1]
    /\ UNCHANGED << app, usb_manager, status_bar, info_bar, portfolio,
                    token_details, token_security, device_panel, send_panel,
                    runs, sends, now, others >>

\* TransactionHistoryPanel.action_select_next: the selection moves down and
\* the page grows when the selection leaves it and cached entries remain.
TxSelectNext ==
    /\ LET len == Len(tx_panel.transactions)
           last == IF len - 1 > 0 THEN len - 1 ELSE 0
           index == tx_panel.selected_index + 1
       IN  /\ tx_panel.selected_index < last
           /\ tx_panel' = [tx_panel EXCEPT
                  !.selected_index = index,
                  !.page_size = IF index >= @ /\ @ < len THEN @ + PageSize ELSE @]
    /\ UNCHANGED << app, usb_manager, status_bar, info_bar, portfolio,
                    token_details, token_security, device_panel, send_panel,
                    runs, sends, now, others >>

\* refresh_history shows the button while cached entries are hidden.
HasMore == Len(tx_panel.transactions) > tx_panel.page_size

\* TransactionHistoryPanel.on_button_pressed: the page grows and LoadMore is
\* posted, unless the watcher of the page size has raised before.
PressLoadMore ==
    /\ HasMore
    /\ tx_panel' = [tx_panel EXCEPT !.page_size = @ + PageSize]
    /\ mores' = IF RefreshHistoryRaises(tx_panel) THEN mores
                ELSE Append(mores, NewMore)
    /\ UNCHANGED << app, usb_manager, status_bar, info_bar, portfolio,
                    token_details, token_security, device_panel, send_panel,
                    runs, sends, now, airdrops, config, batch >>

\* on_transaction_history_panel_load_more, for the oldest message posted:
\* without a public key or a transaction nothing happens, otherwise a thread
\* starts with the last signature as cursor and the list as it is now.
OnLoadMore(m) ==
    /\ m \in MoreThreads /\ mores[m].pc = "posted"
    /\ \A k \in 1..(m - 1) : mores[k].pc # "posted"
    /\ mores' = IF app.current_public_key = NONE \/ tx_panel.transactions = << >>
                THEN EndMore(m)
                ELSE LET current_txs == tx_panel.transactions
                     IN  [mores EXCEPT ![m] =
                            [pc |-> "fetch",
                             before_sig |-> current_txs[Len(current_txs)].signature,
                             existing |-> current_txs,
                             combined |-> << >>]]
    /\ UNCHANGED << app, usb_manager, status_bar, info_bar, portfolio,
                    token_details, token_security, tx_panel, device_panel,
                    send_panel, runs, sends, now, airdrops, config, batch >>

\* A worker that appends the page to the list the panel holds when the page
\* arrives, not to the list its request was made from.
FetchMoreTxsOntoCurrent(m, page) ==
    /\ m \in MoreThreads /\ mores[m].pc = "fetch"
    /\ mores' = IF page.raised \/ page.result = << >>
                THEN EndMore(m)
                ELSE [mores EXCEPT
                        ![m].pc = "commit",
                        ![m].combined = tx_panel.transactions
                            \o EnrichTransactions(page.result,
                                                  app.current_public_key)]
    /\ UNCHANGED << app, usb_manager, status_bar, info_bar, portfolio,
                    token_details, token_security, tx_panel, device_panel,
                    send_panel, runs, sends, now, airdrops, config, batch >>

\* _fetch_more_txs on its thread: the request, the enrichment with the key
\* loaded now, and existing_txs + enriched; a failure or an empty page ends
\* the thread.
FetchMoreTxs(m, page) ==
    /\ m \in MoreThreads /\ mores[m].pc = "fetch"
    /\ mores' = IF page.raised \/ page.result = << >>
                THEN EndMore(m)
                ELSE [mores EXCEPT
                        ![m].pc = "commit",
                        ![m].combined = mores[m].existing
                            \o EnrichTransactions(page.result,
                                                  app.current_public_key)]
    /\ UNCHANGED << app, usb_manager, status_bar, info_bar, portfolio,
                    token_details, token_security, tx_panel, device_panel,
                    send_panel, runs, sends, now, airdrops, config, batch >>

\* _update_txs(combined), handed to the UI thread; the thread returns, an
\* IndexError of the watchers being caught by its `except Exception: pass`.
UpdateMoreTxs(m) ==
    /\ m \in MoreThreads /\ mores[m].pc = "commit"
    /\ tx_panel' = WatchTransactions(tx_panel, mores[m].combined)
    /\ mores' = EndMore(m)
    /\ UNCHANGED << app, usb_manager, status_bar, info_bar, portfolio,
                    token_details, token_security, device_panel, send_panel,
                    runs, sends, now, airdrops, config, batch >>

\* A world with one mounted wallet and a reachable network whose history
\* gains a transaction between two refreshes.
MoreWorld ==
    [SteadyWorld EXCEPT !.connected = { TRUE }, !.devices = { <<DevA>> },
                        !.exists = { TRUE }, !.txs = MoreHistories]

\* The steps of the refresh threads in that world.
MoreRefreshStep(r) ==
    \/ \E c \in MoreWorld.connected : FetchNetwork(r, c)
    \/ UpdateNetworkStatus(r)
    \/ GetNetworkInfo(r)
    \/ UpdateNetworkInfo(r)
    \/ \E d \in MoreWorld.devices : DetectUsb(r, d)
    \/ UpdateDevices(r)
    \/ SelectDevice(r)
    \/ Mount(r)
    \/ UpdateStatusBar(r)
    \/ TestMountPoint(r)
    \/ PubkeyPath(r)
    \/ \E e \in MoreWorld.exists : ReadPubkey(r, e)
    \/ UpdatePubkey(r)
    \/ \E b \in MoreWorld.balances : FetchBalance(r, b)
    \/ UpdateBalance(r)
    \/ \E t \in MoreWorld.tokens : FetchTokens(r, t)
    \/ UpdateTokens(r)
    \/ \E h \in MoreWorld.txs : FetchTxs(r, h)
    \/ UpdateTxs(r)

\* The steps of the load-more threads and of the handler that starts them.
MoreStep(m) ==
    \/ OnLoadMore(m)
    \/ /\ m \in MoreThreads /\ mores[m].pc = "fetch"
       /\ \E page \in MorePages(mores[m].before_sig) : FetchMoreTxs(m, page)
    \/ UpdateMoreTxs(m)

\* Load-more requests and refreshes, the selection left alone.
NextMore ==
    \/ ActionRefresh(DataRuns)
    \/ OnLivePortfolioPanelTokenSelected
    \/ \E r \in 1..DataRuns : MoreRefreshStep(r)
    \/ PressLoadMore /\ Len(mores') <= MaxMores
    \/ \E m \in 1..MaxMores : MoreStep(m)

SpecMore == Init /\ [][NextMore]_vars

\* The same with the user moving the selection through the list.
NextPaging ==
    \/ NextMore
    \/ TxSelectPrev
    \/ TxSelectNext

SpecPaging == Init /\ [][NextPaging]_vars

------------------------------------------------------------------------------
\* _enrich_transactions applied to batches drawn from bounded sets.

\* getTransaction's answers: the call raises, finds nothing, or gives account
\* keys with the owner first, second or absent, balances of one or two
\* accounts and a fee, all within 0..MaxLamports.
Lamports == 0..MaxLamports
BalanceLists == [1..1 -> Lamports] \cup [1..2 -> Lamports]
FullDetails ==
    { [kind |-> "raised"], [kind |-> "none"] }
        \cup [kind : { "detail" },
              account_keys : { << "KeyA", "Other" >>, << "Other", "KeyA" >>,
                               << "Other" >> },
              pre : BalanceLists, post : BalanceLists, fee : Lamports]

\* A few answers, one of each kind of outcome.
FewDetails ==
    { [kind |-> "raised"], [kind |-> "none"],
      [kind |-> "detail", account_keys |-> << "KeyA", "Other" >>,
       pre |-> << 2, 0 >>, post |-> << 0, 1 >>, fee |-> 1],
      [kind |-> "detail", account_keys |-> << "Other", "KeyA" >>,
       pre |-> << 2, 0 >>, post |-> << 0, 1 >>, fee |-> 1],
      [kind |-> "detail", account_keys |-> << "Other" >>,
       pre |-> << 2 >>, post |-> << 1 >>, fee |-> 1] }

\* The batch is enriched for the owner's key.
EnrichStep ==
    /\ ~batch.done
    /\ batch' = [batch EXCEPT !.done = TRUE,
                              !.out = EnrichBatch(batch.txs, batch.details,
                                                  batch.pubkey)]
    /\ UNCHANGED << app, usb_manager, status_bar, info_bar, portfolio,
                    token_details, token_security, tx_panel, device_panel,
                    send_panel, runs, sends, now, mores, airdrops, config >>

\* One raw entry with any answer.
InitEnrich ==
    /\ InitSession
    /\ mores = << >>
    /\ airdrops = [status |-> "", amount_input |-> "", threads |-> << >>,
                   requests |-> { }]
    /\ config = [SOLANA_RPC_URL |-> Devnet]
    /\ \E detail \in FullDetails :
          batch = [NoBatch EXCEPT !.txs = Sigs(1, 1), !.details = << detail >>,
                                  !.pubkey = "KeyA"]

SpecEnrich == InitEnrich /\ [][EnrichStep]_vars

\* Batches of up to MaxBatch entries, each with one of the few answers.
InitBatch ==
    /\ InitSession
    /\ mores = << >>
    /\ airdrops = [status |-> "", amount_input |-> "", threads |-> << >>,
                   requests |-> { }]
    /\ config = [SOLANA_RPC_URL |-> Devnet]
    /\ \E n \in 0..MaxBatch :
          \E details \in [1..n -> FewDetails] :
             batch = [NoBatch EXCEPT !.txs = Sigs(n, 1), !.details = details,
                                     !.pubkey = "KeyA"]

SpecBatch == InitBatch /\ [][EnrichStep]_vars

------------------------------------------------------------------------------
\* NetworkPanel's airdrop form and the _do_airdrop worker.

\* config.SOLANA_RPC_URL as deployed, and `"devnet" in SOLANA_RPC_URL`.
Mainnet == "https://api.mainnet-beta.solana.com"
Testnet == "https://api.testnet.solana.com"
RpcUrls == { Devnet, Testnet, Mainnet }
IsDevnet(url) == url = Devnet

\* NetworkPanel.on_mount: the airdrop status line as the panel starts, and
\* off devnet the button and the amount input are disabled.
NetworkPanelOnMount(url) ==
    IF IsDevnet(url) THEN "" ELSE "Airdrops only available on Devnet"

\* What the user may type as the amount, without surrounding whitespace.
AirdropInputs == { "", "abc", "nan", "0", "1.5", "3" }

AirdropThreads == 1..Len(airdrops.threads)
EndAirdrop(a) ==
    [i \in 1..(Len(airdrops.threads) - 1) |->
        IF i < a THEN airdrops.threads[i] ELSE airdrops.threads[i + 1]]

\* A _do_airdrop thread as run_worker starts it, with the amount the lambda
\* closes over; `message` is the status text it is about to hand over.
NewAirdrop(amount) == [pc |-> "start", amount |-> amount, message |-> ""]

\* The user types into #airdrop-amount, which on_mount disables off devnet.
EditAirdropAmount(value) ==
    /\ IsDevnet(config.SOLANA_RPC_URL)
    /\ value # airdrops.amount_input
    /\ airdrops' = [airdrops EXCEPT !.amount_input = value]
    /\ UNCHANGED << app, usb_manager, status_bar, info_bar, portfolio,
                    token_details, token_security, tx_panel, device_panel,
                    send_panel, runs, sends, now, mores, config, batch >>

\* NetworkPanel.on_button_pressed for #btn-airdrop, which on_mount disables
\* off devnet: the amount is parsed ("1.0" when empty), refused when float()
\* raises or amount <= 0, capped when amount > 2, and handed to
\* request_airdrop, which starts a thread.
PressAirdrop ==
    /\ IsDevnet(config.SOLANA_RPC_URL)
    /\ LET amt_str == IF airdrops.amount_input = "" THEN "1.0"
                      ELSE airdrops.amount_input
           amount == ParseFloat(amt_str)
       IN  IF ~amount.ok
           THEN airdrops' = [airdrops EXCEPT !.status = "Invalid amount"]
           ELSE IF FloatLe(amount, 0)
           THEN airdrops' = [airdrops EXCEPT !.status = "Amount must be > 0"]
           ELSE LET capped == IF FloatGt(amount, AirdropCap)
                              THEN [amount EXCEPT !.v = AirdropCap]
                              ELSE amount
                IN  airdrops' = [airdrops EXCEPT
                       !.status = "Requesting airdrop...",
                       !.threads = Append(@, NewAirdrop(capped))]
    /\ UNCHANGED << app, usb_manager, status_bar, info_bar, portfolio,
                    token_details, token_security, tx_panel, device_panel,
                    send_panel, runs, sends, now, mores, config, batch >>

\* _do_airdrop up to its request, on the worker thread: off devnet or when
\* `not self.current_public_key` the worker has its message; otherwise it
\* goes on to the request.
AirdropStart(a) ==
    /\ a \in AirdropThreads /\ airdrops.threads[a].pc = "start"
    /\ airdrops' =
          IF ~IsDevnet(config.SOLANA_RPC_URL)
          THEN [airdrops EXCEPT
                  !.threads[a].pc = "report",
                  !.threads[a].message = "Airdrops only available on Devnet"]
          ELSE IF app.current_public_key = NONE
          THEN [airdrops EXCEPT !.threads[a].pc = "report",
                                !.threads[a].message = "No wallet loaded"]
          ELSE [airdrops EXCEPT !.threads[a].pc = "request"]
    /\ UNCHANGED << app, usb_manager, status_bar, info_bar, portfolio,
                    token_details, token_security, tx_panel, device_panel,
                    send_panel, runs, sends, now, mores, config, batch >>

\* self.network.request_airdrop(self.current_public_key, amount): the
\* request goes out with the public key the session holds at the call, None
\* included, and brings a signature or none.
AirdropRequest(a, outcome) ==
    /\ a \in AirdropThreads /\ airdrops.threads[a].pc = "request"
    /\ LET request == [url |-> config.SOLANA_RPC_URL,
                       pubkey |-> app.current_public_key,
                       amount |-> airdrops.threads[a].amount]
       IN  IF outcome = "ok"
           THEN airdrops' = [airdrops EXCEPT
                   !.requests = @ \cup { request },
                   !.threads[a].pc = "waiting",
                   !.threads[a].message = "Waiting for confirmation..."]
           ELSE airdrops' = [airdrops EXCEPT
                   !.requests = @ \cup { request },
                   !.threads[a].pc = "report",
                   !.threads[a].message = "Airdrop request failed"]
    /\ UNCHANGED << app, usb_manager, status_bar, info_bar, portfolio,
                    token_details, token_security, tx_panel, device_panel,
                    send_panel, runs, sends, now, mores, config, batch >>

\* The hand-off that follows: the status takes the worker's message, and the
\* worker returns unless its request brought a signature.
AirdropReport(a) ==
    /\ a \in AirdropThreads /\ airdrops.threads[a].pc \in { "report", "waiting" }
    /\ airdrops' = IF airdrops.threads[a].pc = "waiting"
                   THEN [airdrops EXCEPT
                           !.status = airdrops.threads[a].message,
                           !.threads[a].pc = "confirm",
                           !.threads[a].message = ""]
                   ELSE [airdrops EXCEPT
                           !.status = airdrops.threads[a].message,
                           !.threads = EndAirdrop(a)]
    /\ UNCHANGED << app, usb_manager, status_bar, info_bar, portfolio,
                    token_details, token_security, tx_panel, device_panel,
                    send_panel, runs, sends, now, mores, config, batch >>

\* network.confirm_transaction(signature): confirmed, the worker sleeps 2 s;
\* otherwise it reports the airdrop pending and returns.
AirdropConfirm(a, confirmed) ==
    /\ a \in AirdropThreads /\ airdrops.threads[a].pc = "confirm"
    /\ airdrops' = IF confirmed
                   THEN [airdrops EXCEPT !.status = "Airdrop confirmed!",
                                         !.threads[a].pc = "sleep"]
                   ELSE [airdrops EXCEPT
                           !.status = "Airdrop pending confirmation",
                           !.threads = EndAirdrop(a)]
    /\ UNCHANGED << app, usb_manager, status_bar, info_bar, portfolio,
                    token_details, token_security, tx_panel, device_panel,
                    send_panel, runs, sends, now, mores, config, batch >>

\* After the sleep: call_from_thread(self.refresh_data); the worker returns.
AirdropResync(a, limit) ==
    /\ a \in AirdropThreads /\ airdrops.threads[a].pc = "sleep"
    /\ RefreshData(limit)
    /\ airdrops' = [airdrops EXCEPT !.threads = EndAirdrop(a)]
    /\ UNCHANGED << app, usb_manager, info_bar, portfolio, token_details,
                    token_security, tx_panel, device_panel, send_panel, sends,
                    now, mores, config, batch >>

\* The airdrop form on any endpoint, with or without a wallet loaded; the
\* refresh a confirmed airdrop asks for finds the device unplugged.
InitAirdrop ==
    /\ InitSession \/ LoadedSession("", "")
    /\ mores = << >>
    /\ config \in [SOLANA_RPC_URL : RpcUrls]
    /\ airdrops = [status |-> NetworkPanelOnMount(config.SOLANA_RPC_URL),
                   amount_input |-> "", threads |-> << >>, requests |-> { }]
    /\ batch = NoBatch

NextAirdrop ==
    \/ \E v \in AirdropInputs : EditAirdropAmount(v)
    \/ PressAirdrop /\ Len(airdrops'.threads) <= MaxAirdrops
    \/ OnLivePortfolioPanelTokenSelected
    \/ \E a \in 1..MaxAirdrops :
        \/ AirdropStart(a)
        \/ \E o \in { "ok", "none" } : AirdropRequest(a, o)
        \/ AirdropReport(a)
        \/ \E c \in BOOLEAN : AirdropConfirm(a, c)
        \/ AirdropResync(a, SendRuns)
    \/ \E r \in 1..SendRuns :
        \/ FetchNetwork(r, TRUE)
        \/ UpdateNetworkStatus(r)
        \/ GetNetworkInfo(r)
        \/ UpdateNetworkInfo(r)
        \/ DetectUsb(r, << >>)
        \/ UpdateDevices(r)
        \/ SetModeOffline(r)

SpecAirdrop == InitAirdrop /\ [][NextAirdrop]_vars

------------------------------------------------------------------------------
\* TokenSecurityPanel._fetch_security: the worker thread of one report.

\* "devnet" in SOLANA_RPC_URL or "testnet" in SOLANA_RPC_URL
IsTestCluster(url) == url \in { Devnet, Testnet }

\* What the report request may bring: both HTTP clients raise, the body of
\* a 200 answer is no JSON (response.json() raises), or an HTTP status.
StatusCodes == { 200, 400, 401, 403, 429, 500 }
SecurityAnswers ==
    { [kind |-> "raised", status |-> 0], [kind |-> "bad_json", status |-> 200] }
        \cup { [kind |-> "status", status |-> c] : c \in StatusCodes }

\* What the thread hands to security_data: the error of a cluster that has
\* no reports, the error of a client that raised, the report of its mint on
\* status 200, or the error of the status.
SecurityResult(mint, url, answer) ==
    IF IsTestCluster(url) THEN [error |-> "non_mainnet", mint |-> ""]
    ELSE IF answer.kind = "raised" THEN [error |-> "http_client", mint |-> ""]
    ELSE IF answer.kind = "bad_json" THEN [error |-> "Check failed", mint |-> ""]
    ELSE IF answer.status = 200 THEN [error |-> "", mint |-> mint]
    ELSE IF answer.status \in { 401, 403 } THEN [error |-> "auth", mint |-> ""]
    ELSE IF answer.status = 429 THEN [error |-> "rate_limited", mint |-> ""]
    ELSE IF answer.status = 400 THEN [error |-> "unknown_token", mint |-> ""]
    ELSE [error |-> "API error", mint |-> ""]

FetchThreads == 1..Len(token_security.threads)

\* The worker thread returns.
EndFetch(f) ==
    [i \in 1..(Len(token_security.threads) - 1) |->
        IF i < f THEN token_security.threads[i]
        ELSE token_security.threads[i + 1]]

\* The request of thread f is answered with `answer`.
FetchSecurity(f, answer) ==
    /\ f \in FetchThreads /\ token_security.threads[f].pc = "fetch"
    /\ token_security' =
          [token_security EXCEPT
              !.threads[f].pc = "commit",
              !.threads[f].result =
                  << SecurityResult(token_security.threads[f].mint,
                                    config.SOLANA_RPC_URL, answer) >>]
    /\ UNCHANGED << app, usb_manager, status_bar, info_bar, portfolio,
                    token_details, tx_panel, device_panel, send_panel, runs,
                    sends, now, mores, airdrops, config, batch >>

\* call_from_thread(setattr, self, "security_data", ...): the UI thread
\* stores the answer, whatever the selection is by now, and the thread
\* returns.
SetSecurityData(f) ==
    /\ f \in FetchThreads /\ token_security.threads[f].pc = "commit"
    /\ token_security' =
          [token_security EXCEPT
              !.security_data = token_security.threads[f].result,
              !.threads = EndFetch(f)]
    /\ UNCHANGED << app, usb_manager, status_bar, info_bar, portfolio,
                    token_details, tx_panel, device_panel, send_panel, runs,
                    sends, now, mores, airdrops, config, batch >>

\* What refresh_security shows: the report in security_data, when a token
\* is selected and security_data holds no error.
ShownReport ==
    IF /\ token_security.selected_token # << >>
       /\ token_security.security_data # << >>
       /\ token_security.security_data[1].error = ""
    THEN << token_security.security_data[1].mint >>
    ELSE << >>

\* A wallet with two tokens on any cluster: one refresh at a time, a user
\* who moves the selection, and the report fetches the selection starts.
SecurityWorld ==
    [SteadyWorld EXCEPT !.connected = { TRUE }, !.devices = { <<DevA>> },
                        !.exists = { TRUE },
                        !.tokens = { [raised |-> FALSE,
                                      value |-> <<TokX, TokUSDC>>] }]

InitSecurity ==
    /\ InitSession
    /\ mores = << >>
    /\ config \in [SOLANA_RPC_URL : RpcUrls]
    /\ airdrops = [status |-> NetworkPanelOnMount(config.SOLANA_RPC_URL),
                   amount_input |-> "", threads |-> << >>, requests |-> { }]
    /\ batch = NoBatch

NextSecurity ==
    \/ ActionRefresh(DataRuns)
    \/ SelectStep
    \/ \E f \in 1..MaxFetches :
        \/ \E answer \in SecurityAnswers : FetchSecurity(f, answer)
        \/ SetSecurityData(f)
    \/ \E r \in 1..DataRuns :
        \/ \E c \in SecurityWorld.connected : FetchNetwork(r, c)
        \/ UpdateNetworkStatus(r)
        \/ GetNetworkInfo(r)
        \/ UpdateNetworkInfo(r)
        \/ \E d \in SecurityWorld.devices : DetectUsb(r, d)
        \/ UpdateDevices(r)
        \/ SelectDevice(r)
        \/ Mount(r)
        \/ UpdateStatusBar(r)
        \/ TestMountPoint(r)
        \/ PubkeyPath(r)
        \/ \E e \in SecurityWorld.exists : ReadPubkey(r, e)
        \/ UpdatePubkey(r)
        \/ \E b \in SecurityWorld.balances : FetchBalance(r, b)
        \/ UpdateBalance(r)
        \/ \E t \in SecurityWorld.tokens : FetchTokens(r, t)
        \/ UpdateTokens(r)
        \/ \E h \in SecurityWorld.txs : FetchTxs(r, h)
        \/ UpdateTxs(r)

SpecSecurity == InitSecurity /\ [][NextSecurity]_vars

------------------------------------------------------------------------------
\* ColdstarLiveWallet.action_unmount: the key u, or "Yes, unmount" on the
\* confirm screen of the key q.

\* USBManager.unmount_device, from the device layer's `unmount() -> bool`: it
\* returns True and the mount is gone, returns False, or raises, and the
\* mount stays.
UnmountOutcomes == { "true", "false", "raised" }

UnmountDevice(manager, outcome) ==
    IF outcome = "true" THEN [manager EXCEPT !.mount_point = NONE]
    ELSE manager

\* action_quit, the key q: with a mount point the confirm screen opens,
\* whose "Yes, unmount" is action_unmount and whose "No" changes nothing;
\* without one the application exits at once.
ActionQuit ==
    /\ ~app.exited
    /\ app' = IF usb_manager.mount_point = NONE
              THEN [app EXCEPT !.exited = TRUE]
              ELSE app
    /\ UNCHANGED << usb_manager, status_bar, info_bar, portfolio, token_details,
                    token_security, tx_panel, device_panel, send_panel, runs,
                    sends, now, mores, airdrops, config, batch >>

\* Without a mount point, or when unmount_device raises, a notification and
\* nothing else; otherwise, whatever unmount_device returned, the session
\* is cleared, did_unmount is set and the application exits.
ActionUnmount(outcome) ==
    /\ ~app.exited
    /\ IF usb_manager.mount_point = NONE \/ outcome = "raised"
       THEN UNCHANGED << app, usb_manager >>
       ELSE /\ usb_manager' = UnmountDevice(usb_manager, outcome)
            /\ app' = [app EXCEPT !.did_unmount = TRUE,
                                  !.current_public_key = NONE,
                                  !.current_balance = 0,
                                  !.current_tokens = << >>,
                                  !.exited = TRUE]
    /\ UNCHANGED << status_bar, info_bar, portfolio, token_details,
                    token_security, tx_panel, device_panel, send_panel, runs,
                    sends, now, mores, airdrops, config, batch >>

\* The application until it exits: the refreshes of a wallet whose devices
\* and balance vary, and a user who asks for the unmount or quits.
UnmountWorld ==
    [SteadyWorld EXCEPT !.connected = { TRUE }, !.exists = { TRUE },
                        !.balances = { <<0>>, <<20>> }]

\* exit() ends the event loop, not the worker threads: after it no key,
\* timer or posted message is handled, the threads run on, and a hand-off
\* they ask for is either still served while the application shuts down or
\* fails on the worker thread, which ends with the exception.
HandOffPcs ==
    { "net_commit", "info_commit", "usb_commit", "offline", "select_usb", "status",
      "pubkey_commit", "balance_commit", "tokens_commit", "txs_commit" }

HandOffFails(r) ==
    /\ app.exited
    /\ r \in Alive /\ runs[r].pc \in HandOffPcs
    /\ runs' = [runs EXCEPT ![r].pc = "raised"]
    /\ UNCHANGED << app, usb_manager, status_bar, info_bar, portfolio,
                    token_details, token_security, tx_panel, device_panel,
                    send_panel, sends, now, others >>

NextUnmount ==
    \/ \E o \in UnmountOutcomes : ActionUnmount(o)
    \/ ActionQuit
    \/ ~app.exited /\ ActionRefresh(DataRuns)
    \/ ~app.exited /\ OnLivePortfolioPanelTokenSelected
    \/ \E r \in 1..DataRuns : RefreshWorkerStep(r, UnmountWorld)
    \/ \E r \in 1..DataRuns : RefreshHandOff(r)
    \/ \E r \in 1..DataRuns : HandOffFails(r)

SpecUnmount == Init /\ [][NextUnmount]_vars

------------------------------------------------------------------------------
\* The data a refresh commits for the balance, token and transaction stages.
ChainData == << app.current_balance, app.current_tokens, info_bar.balance,
                portfolio.sol_balance, portfolio.tokens,
                send_panel.current_balance, token_details, token_security,
                tx_panel >>

\* C1: the handler of Confirm launches the signing worker only if the draft
\* amount is greater than 0 and amount + fee is within the session's balance.
C1_SigningOnlyWithFunds ==
    [][(OnLiveSendPanelSendRequested /\ Len(sends') > Len(sends))
          => LET amount == ParseFloat(send_panel.amount_input)
             IN  /\ amount.ok
                 /\ FloatGt(amount, 0)
                 /\ FloatLe(FloatAdd(amount, Fee), app.current_balance)]_vars

\* C2: while the flow is in Draft, Broadcasting or Result, neither the
\* password input nor a send worker holds the passphrase.
C2_PassphraseOnlyWhileSigning ==
    FlowState \in { "Draft", "Broadcasting", "Result" }
        => /\ send_panel.wallet_password = ""
           /\ \A w \in SendThreads : sends[w].password = ""

\* C3: a failed step of the Signing stage ends the worker with an error
\* message in the review line and without reaching the broadcast; it starts
\* no worker and no refresh, changes no balance and leaves the confirm step
\* as the user has it, so that the flow is in Draft unless the user has
\* opened the confirm step again or another attempt is running.  A device
\* that is gone shows as a container that cannot be loaded.
C3_SigningFailureEndsAttempt ==
    [][\A w \in SendThreads :
          LET failed ==
                \/ SendBuildCommit(w) /\ sends[w].outcome # "ok"
                \/ \E o \in { "none", "raised" } :
                      \/ SendBlockhash(w, o)
                      \/ SendLoad(w, o)
                      \/ SendSign(w, o)
          IN  failed
                => /\ sends[w].pc \in SigningPcs
                   /\ sends' = EndSend(w)
                   /\ send_panel'.review \in
                        { "Error: Could not get blockhash",
                          "Error: Could not build transaction",
                          "Error: Could not load wallet (wrong password?)",
                          "Error: Signing failed (wrong password?)",
                          "Error: exception" }
                   /\ send_panel'.confirming = send_panel.confirming
                   /\ (~send_panel.confirming /\ Len(sends) = 1)
                        => FlowState' = "Draft"
                   /\ UNCHANGED << runs, app, usb_manager, info_bar, portfolio,
                                   token_details, others >>
                   /\ send_panel'.current_balance = send_panel.current_balance
      ]_vars

\* C3 witness: the signer has returned nothing; the worker is gone, the
\* review line says so, the confirm step is closed and the balance stands.
C3_Witness ==
    /\ sends = << >> /\ runs = << >>
    /\ send_panel.review = "Error: Signing failed (wrong password?)"
    /\ ~send_panel.confirming
    /\ app.current_balance = 20 /\ send_panel.current_balance = 20

\* C4: once the review line shows the result of a broadcast, the flow
\* leaves Result only by Clear.
C4_ResultUntilClear ==
    [][(FlowState = "Result" /\ FlowState' # "Result") => PressClear]_vars

\* C5: Send opens the confirm step only if the address is valid, the amount
\* is a number greater than 0 and amount + fee is within the balance;
\* otherwise the step stays closed and the review line names the gate.
C5_SendGate ==
    [][(PressSend /\ ~send_panel.confirming)
          => LET amount == ParseFloat(send_panel.amount_input)
                 gates == /\ ValidateAddress(send_panel.to_address)
                          /\ amount.ok /\ ~amount.nan /\ amount.v > 0
                          /\ amount.v + Fee <= send_panel.current_balance
             IN  /\ send_panel'.confirming => gates
                 /\ ~gates
                      => /\ ~send_panel'.confirming
                         /\ send_panel'.review \in
                              { "Fill in address and amount first",
                                "Invalid recipient address",
                                "Invalid amount",
                                "Amount must be greater than 0",
                                "Insufficient balance (amount + fee)" }]_vars

\* C6: at most one _fetch_wallet_data run is executing at any time.
C6_OneRefreshRun == Len(runs) <= 1

\* C7: a refresh request that arrives while a run is in flight is absorbed:
\* it starts no new run and leaves the run in flight as it is.
C7_RequestAbsorbed ==
    [][(Len(runs) >= 1 /\ ActionRefresh(MaxRuns)) => runs' = runs]_vars

\* C8: no step of a background worker writes session state (public key,
\* balance, token list, selected device index, mount point, last mount
\* attempt); only the handlers handed to the UI thread do.
C8_WorkersNeverWriteSession ==
    [][(\E r \in Alive : RefreshWorkerStep(r, AnyWorld))
          => UNCHANGED << app, usb_manager, others >>]_vars

\* C9: a run that found the network unreachable changes no balance, token
\* list or transaction list; its first hand-off shows Disconnected and its
\* device hand-off commits the devices it discovered.
C9_NetworkDownKeepsData ==
    [][\A r \in Alive :
          (/\ runs[r].pc # "net"
           /\ ~runs[r].connected
           /\ RefreshWorkerStep(r, AnyWorld) \/ RefreshHandOff(r))
          => /\ UNCHANGED ChainData
             /\ runs[r].pc = "net_commit"
                  => status_bar'.network_status = "Disconnected"
             /\ runs[r].pc = "usb_commit"
                  => /\ app'.detected_devices = runs[r].devices
                     /\ device_panel'.devices = runs[r].devices]_vars

\* C9 witness: a run that found the network down has committed the device it
\* discovered and its public key, while the balance, tokens and transactions
\* of an earlier run are still shown.
C9_Witness ==
    \E r \in Alive :
        /\ ~runs[r].connected /\ runs[r].pc = "pubkey_commit"
        /\ status_bar.network_status = "Disconnected"
        /\ app.detected_devices = <<DevA>>
        /\ info_bar.balance > 0 /\ app.current_balance > 0
        /\ portfolio.tokens # << >> /\ tx_panel.transactions # << >>

\* C10: a failed fetch in the balance, token or transaction stage leaves the
\* value committed for that stage as it was.
C10_FailedFetchKeepsStage ==
    [][\A r \in Alive :
          /\ FetchBalance(r, << >>) => UNCHANGED ChainData
          /\ FetchTokens(r, [raised |-> TRUE, value |-> << >>])
                => UNCHANGED ChainData
          /\ FetchTxs(r, << >>) => UNCHANGED ChainData]_vars

\* C11: within a run, once the network stage has failed, no later stage
\* (device list, mount, public key, balance, tokens, transactions) commits.
C11_FailureHaltsLaterStages ==
    [][\A r \in Alive :
          (runs[r].pc \notin { "net", "net_commit" } /\ ~runs[r].connected)
             => ~(\/ UpdateDevices(r)
                  \/ UpdateStatusBar(r)
                  \/ UpdatePubkey(r)
                  \/ UpdateBalance(r)
                  \/ UpdateTokens(r)
                  \/ UpdateTxs(r))]_vars

\* The place of each step in the text of _fetch_wallet_data.
PcRank ==
    [net |-> 1, net_commit |-> 2, info |-> 3, info_commit |-> 4, usb |-> 5,
     usb_commit |-> 6, offline |-> 7, select |-> 7, select_usb |-> 8,
     mount |-> 8, mount_stamp |-> 9, mount_io |-> 10, status |-> 11,
     pubkey |-> 12, pubkey_path |-> 13, pubkey_io |-> 14,
     pubkey_commit |-> 15, balance |-> 16, balance_commit |-> 17,
     tokens |-> 18, tokens_commit |-> 19, txs |-> 20, txs_commit |-> 21,
     raised |-> 22]

\* C12: a run goes through its stages in the fixed order, each I/O step
\* after the hand-off of the stage before it, and each hand-off commits the
\* result of its own stage only.
C12_StagesCommitInOrder ==
    [][\A r \in Alive :
          /\ ((RefreshWorkerStep(r, AnyWorld) \/ RefreshHandOff(r))
                /\ Len(runs') = Len(runs))
               => PcRank[runs'[r].pc] > PcRank[runs[r].pc]
          /\ UpdateNetworkStatus(r) \/ UpdateNetworkInfo(r)
               => UNCHANGED << app, info_bar, portfolio, token_details,
                               token_security, tx_panel, device_panel, others >>
          /\ UpdateDevices(r)
               => /\ device_panel'.devices = runs[r].devices
                  /\ UNCHANGED << app.current_public_key, app.current_balance,
                                  app.current_tokens, status_bar, info_bar,
                                  portfolio, token_details, token_security,
                                  tx_panel, others >>
          /\ UpdatePubkey(r)
               => /\ info_bar'.public_key = runs[r].pubkey
                  /\ portfolio'.public_key = runs[r].pubkey
                  /\ UNCHANGED << app, status_bar, device_panel,
                                  info_bar.balance, portfolio.sol_balance,
                                  portfolio.tokens, token_details,
                                  token_security, tx_panel, others >>
          /\ UpdateBalance(r)
               => /\ info_bar'.balance = runs[r].balance
                  /\ UNCHANGED << app, status_bar, device_panel,
                                  info_bar.public_key, portfolio.public_key,
                                  portfolio.tokens,
                                  token_details.selected_token,
                                  token_security, tx_panel, others >>
          /\ UpdateTokens(r)
               => /\ portfolio'.tokens = runs[r].tokens
                  /\ UNCHANGED << app, status_bar, device_panel, info_bar,
                                  portfolio.public_key, portfolio.sol_balance,
                                  send_panel, tx_panel, others >>
          /\ UpdateTxs(r)
               => /\ tx_panel'.transactions = runs[r].txs
                  /\ UNCHANGED << app, status_bar, device_panel, info_bar,
                                  portfolio, token_details, token_security,
                                  send_panel, others >>]_vars

\* C12 witness: a run has committed network status, devices, public key,
\* balance and tokens, and holds its transactions for the last hand-off.
C12_Witness ==
    \E r \in Alive :
        /\ runs[r].pc = "txs_commit"
        /\ status_bar.network_status = "Connected"
        /\ device_panel.devices = runs[r].devices
        /\ info_bar.public_key = runs[r].pubkey
        /\ info_bar.balance = runs[r].balance /\ runs[r].balance > 0
        /\ portfolio.tokens = runs[r].tokens /\ runs[r].tokens # << >>
        /\ tx_panel.transactions = << >>

\* C13: the portfolio selection is the native asset or one of the tokens
\* shown: 0 <= selected_index <= len(tokens).
C13_SelectionInRange ==
    /\ 0 <= portfolio.selected_index
    /\ portfolio.selected_index <= Len(portfolio.tokens)

\* C14: a token commit that shrinks the list to n entries, below the
\* selection, moves the selection to n, and the detail panels show entry n
\* (the native asset when n = 0).
C14_ShrinkSnapsToLast ==
    [][\A r \in Alive :
          (UpdateTokens(r) /\ Len(runs[r].tokens) < portfolio.selected_index)
             => LET n == Len(runs[r].tokens)
                    entry == IF n = 0 THEN << >> ELSE << runs[r].tokens[n] >>
                IN  /\ portfolio'.selected_index = n
                    /\ token_details'.selected_token = entry
                    /\ token_security'.selected_token = entry]_vars

\* C15: once every TokenSelected posted has been handled, the detail panels
\* show the entry of the portfolio's token list at the portfolio's
\* selection (the native asset at 0).
C15_DetailsFollowSelection ==
    portfolio.posted = << >>
        => LET index == portfolio.selected_index
               entry == IF index = 0 THEN << >>
                        ELSE << portfolio.tokens[index] >>
           IN  /\ index <= Len(portfolio.tokens)
               /\ token_details.selected_token = entry
               /\ token_security.selected_token = entry

\* C16: the info bar, the portfolio, the send panel, the token details and
\* the application hold the same balance.
C16_BalanceCopiesAgree ==
    /\ info_bar.balance = app.current_balance
    /\ portfolio.sol_balance = app.current_balance
    /\ send_panel.current_balance = app.current_balance
    /\ token_details.sol_balance = app.current_balance

\* C18: where no user chooses a device (SpecRefresh), a run that found one
\* device works on it, and a run that found several reports SELECT USB and
\* goes no further.
C18_SeveralDevicesNeedUserChoice ==
    [][\A r \in Alive :
          SelectDevice(r)
             => IF Len(runs[r].devices) = 1
                THEN /\ runs'[r].pc = "mount"
                     /\ runs'[r].device = runs[r].devices[1]
                ELSE runs'[r].pc = "select_usb"]_vars

\* The session as the unmount leaves the app-level fields (public key unset,
\* balance 0, no tokens), extended to the transaction list and to every
\* surface that shows them.
SessionCleared ==
    /\ app.current_public_key = NONE
    /\ app.current_balance = 0
    /\ app.current_tokens = << >>
    /\ info_bar = [balance |-> 0, public_key |-> ""]
    /\ portfolio.sol_balance = 0
    /\ portfolio.tokens = << >>
    /\ portfolio.public_key = ""
    /\ token_details = [selected_token |-> << >>, sol_balance |-> 0]
    /\ token_security.selected_token = << >>
    /\ tx_panel.transactions = << >>
    /\ send_panel.current_balance = 0

\* C19: a refresh that finds no device leaves the whole session cleared, in
\* the app-level state and on every display surface.
C19_NoDeviceClearsSession ==
    [][\A r \in Alive : SetModeOffline(r) => SessionCleared']_vars

\* C20: every mount attempt comes at least MountInterval seconds after the
\* attempt before it, whatever the interleaving of the refresh threads, and a
\* device that reports a mountpoint causes no attempt.
C20_MountAttemptsSpaced ==
    [][\A r \in Alive :
          /\ MountStamp(r) => now - app.last_mount_attempt >= MountInterval
          /\ (Mount(r) /\ runs[r].device.mountpoint # NONE)
                => runs'[r].pc = "status"]_vars

\* C21: a refresh run reports READY only when a mount point exists; a run
\* whose mount stage left no mount point does not report READY.
C21_ReadyOnlyWhenMounted ==
    [][\A r \in Alive :
          (UpdateStatusBar(r) /\ status_bar'.mode = "READY")
             => usb_manager.mount_point # NONE]_vars

\* A list that holds no signature twice.
NoDuplicates(txs) ==
    \A i, j \in 1..Len(txs) : txs[i].signature = txs[j].signature => i = j

\* C22: whatever the interleaving of load-more requests, load-more commits
\* and refresh commits, the transaction list holds no signature twice.
C22_NoDuplicateSignature == NoDuplicates(tx_panel.transactions)

\* A load-more commit has grown the list and another one is about to land.
C22_Witness ==
    /\ Len(tx_panel.transactions) > RefreshLimit
    /\ \E m \in MoreThreads : mores[m].pc = "commit"

\* `a` is the beginning of `b`: same entries, same order, same fields.
IsPrefix(a, b) == Len(a) <= Len(b) /\ SubSeq(b, 1, Len(a)) = a

\* C23: a load-more commit appends: the list held just before it is a prefix
\* of the list after it and the selection index stays, also when a refresh
\* commit landed between the request and the commit.
C23_LoadMoreAppends ==
    [][\A m \in MoreThreads :
          UpdateMoreTxs(m)
             => /\ IsPrefix(tx_panel.transactions, tx_panel'.transactions)
                /\ tx_panel'.selected_index = tx_panel.selected_index]_vars

\* C24: a fetch for more transactions starts only when the page has reached
\* the number of cached entries; while cached entries stay hidden, growing
\* the page starts no fetch.
C24_FetchOnlyWhenCacheExhausted ==
    [][\A m \in MoreThreads :
          (OnLoadMore(m) /\ m \in 1..Len(mores') /\ mores'[m].pc = "fetch")
             => tx_panel.page_size >= Len(tx_panel.transactions)]_vars

\* The owner's place among the account keys of the i-th answer, 0 if the
\* call failed, the owner is absent or a balance list is too short.
OwnerIndex(i) ==
    LET detail == batch.details[i]
    IN  IF detail.kind # "detail" THEN 0
        ELSE IF \A k \in 1..Len(detail.account_keys) :
                   detail.account_keys[k] # batch.pubkey
        THEN 0
        ELSE LET idx == IndexOf(batch.pubkey, detail.account_keys)
             IN  IF idx <= Len(detail.pre) /\ idx <= Len(detail.post)
                 THEN idx ELSE 0

\* C25: an entry whose owner is the first account key and whose balance
\* went down is enriched as sent, with sol_delta = -(pre[0] - post[0] - fee)
\* (lamports here, native units in the program).
C25_PayerDecreaseIsSent ==
    batch.done =>
        \A i \in 1..Len(batch.txs) :
            LET detail == batch.details[i]
            IN  (OwnerIndex(i) = 1 /\ detail.post[1] - detail.pre[1] < 0)
                   => /\ "direction" \in DOMAIN batch.out[i]
                      /\ batch.out[i].direction = "sent"
                      /\ batch.out[i].sol_delta
                            = -(detail.pre[1] - detail.post[1] - detail.fee)

\* A payer who lost more than the fee has been enriched.
C25_Witness ==
    /\ batch.done
    /\ \E i \in 1..Len(batch.txs) :
          /\ OwnerIndex(i) = 1
          /\ batch.details[i].fee > 0
          /\ batch.details[i].pre[1] - batch.details[i].post[1]
                > batch.details[i].fee

\* C26: an entry whose owner is at index idx, whose balance went up and to
\* which the sent rule does not apply is enriched as received, with
\* sol_delta = post[idx] - pre[idx].
C26_IncreaseIsReceived ==
    batch.done =>
        \A i \in 1..Len(batch.txs) :
            LET detail == batch.details[i]
                idx == OwnerIndex(i)
            IN  (idx > 0 /\ detail.post[idx] - detail.pre[idx] > 0)
                   => /\ "direction" \in DOMAIN batch.out[i]
                      /\ batch.out[i].direction = "received"
                      /\ batch.out[i].sol_delta
                            = detail.post[idx] - detail.pre[idx]

\* A fee payer whose balance went up has been enriched.
C26_Witness ==
    /\ batch.done
    /\ \E i \in 1..Len(batch.txs) :
          /\ OwnerIndex(i) = 1
          /\ batch.details[i].post[1] > batch.details[i].pre[1]

\* The i-th answer is a failed lookup: the call raised or found nothing.
LookupFailed(i) == batch.details[i].kind # "detail"

\* C27: the enriched batch has one entry per raw entry, in order
\* and with its signature; an entry whose lookup failed carries the
\* direction "unknown" and no sol_delta or fee_sol; every other entry is
\* what it is when enriched alone.
C27_FailedEntryMarkedUnknown ==
    batch.done =>
        /\ Len(batch.out) = Len(batch.txs)
        /\ \A i \in 1..Len(batch.txs) :
              /\ batch.out[i].signature = batch.txs[i].signature
              /\ IF LookupFailed(i)
                 THEN /\ "direction" \in DOMAIN batch.out[i]
                      /\ batch.out[i].direction = "unknown"
                      /\ DOMAIN batch.out[i] \cap { "sol_delta", "fee_sol" } = { }
                 ELSE batch.out[i]
                        = EnrichEntry(batch.txs[i], batch.details[i],
                                      batch.pubkey)

\* C28: no refresh worker ends with an exception nothing handled, a failed
\* read of the public-key file after the device vanished included.
C28_NoWorkerRaises == \A r \in Alive : runs[r].pc # "raised"

\* C29: an accepted broadcast shows the shortened signature and leaves the
\* worker waiting out the delay, a failed or rejected one ends the worker;
\* a refresh is requested only by a worker that waited after an accepted
\* broadcast, and such a worker's refresh is eventually requested.
C29_ResyncAfterAcceptedBroadcast ==
    /\ [][\A w \in SendThreads : \A o \in Outcomes :
             SendBroadcast(w, o)
                => IF o = "ok"
                   THEN /\ send_panel'.review = "Sent! Sig: ..."
                        /\ sends'[w].pc = "sleep"
                        /\ runs' = runs
                   ELSE /\ Len(sends') < Len(sends)
                        /\ runs' = runs]_vars
    /\ [][Len(runs') > Len(runs)
             => \E w \in SendThreads :
                   sends[w].pc = "sleep" /\ SendResync(w, SendRuns)]_vars
    /\ (\E w \in SendThreads : sends[w].pc = "sleep")
          ~> (\E r \in Alive : runs[r].pc = "net")

\* The refresh asked for after an accepted broadcast has started.
C29_Witness ==
    /\ \E r \in Alive : runs[r].pc = "net"
    /\ sends = << >>
    /\ send_panel.review = "Sent! Sig: ..."

\* C30: every requestAirdrop call is made on devnet, with a public key
\* loaded and an amount greater than 0 and at most 2 (AirdropCap).
C30_AirdropOnlyOnDevnetInRange ==
    \A request \in airdrops.requests :
        /\ IsDevnet(request.url)
        /\ request.pubkey # NONE
        /\ ~request.amount.nan
        /\ request.amount.v > 0
        /\ request.amount.v <= AirdropCap

\* C31: an entry enriched as sent has sol_delta <= 0, whatever pre[0],
\* post[0] and fee are, a fee larger than the decrease included.
C31_SentIsNegative ==
    batch.done =>
        \A i \in 1..Len(batch.out) :
            ("direction" \in DOMAIN batch.out[i] /\ batch.out[i].direction = "sent")
               => batch.out[i].sol_delta <= 0

\* C32: an entry whose owner is found and whose balance did not change, or
\* went down while the owner is not the first account key, is enriched as
\* other with sol_delta = post[idx] - pre[idx], never as sent.
C32_RestIsOther ==
    batch.done =>
        \A i \in 1..Len(batch.txs) :
            LET detail == batch.details[i]
                idx == OwnerIndex(i)
            IN  (idx > 0 /\ \/ detail.post[idx] - detail.pre[idx] = 0
                            \/ idx # 1 /\ detail.post[idx] - detail.pre[idx] < 0)
                   => /\ "direction" \in DOMAIN batch.out[i]
                      /\ batch.out[i].direction = "other"
                      /\ batch.out[i].sol_delta
                            = detail.post[idx] - detail.pre[idx]

\* An owner who is not the fee payer and whose balance went down has been
\* enriched.
C32_Witness ==
    /\ batch.done
    /\ \E i \in 1..Len(batch.txs) :
          /\ OwnerIndex(i) = 2
          /\ batch.details[i].post[2] < batch.details[i].pre[2]

\* The i-th lookup succeeded and the owner is not among the account keys,
\* or is at an index the balance lists do not reach.
OwnerNotFound(i) == ~LookupFailed(i) /\ OwnerIndex(i) = 0

\* C33: every enriched entry has a direction among sent,
\* received, other and unknown; an entry whose owner is not found has the
\* direction "unknown" and no sol_delta.
C33_OwnerAbsentMarkedUnknown ==
    batch.done =>
        \A i \in 1..Len(batch.txs) :
            /\ "direction" \in DOMAIN batch.out[i]
            /\ batch.out[i].direction \in { "sent", "received", "other", "unknown" }
            /\ OwnerNotFound(i)
                  => /\ batch.out[i].direction = "unknown"
                     /\ "sol_delta" \notin DOMAIN batch.out[i]

\* C34: an entry whose lookup succeeded carries fee_sol = fee whatever its
\* direction, also without one; an entry whose lookup failed has no fee_sol.
C34_FeeRecordedOnSuccess ==
    batch.done =>
        \A i \in 1..Len(batch.txs) :
            IF LookupFailed(i)
            THEN "fee_sol" \notin DOMAIN batch.out[i]
            ELSE /\ "fee_sol" \in DOMAIN batch.out[i]
                 /\ batch.out[i].fee_sol = batch.details[i].fee

\* An entry without direction has been enriched with a fee above zero.
C34_Witness ==
    /\ batch.done
    /\ \E i \in 1..Len(batch.txs) :
          /\ OwnerNotFound(i)
          /\ batch.details[i].fee > 0
          /\ batch.out[i].fee_sol > 0

\* C35: whenever the device panel lists two or more devices, the user has a
\* key that makes a listed device the session's selected one and starts a
\* refresh.
C35_UserCanSelectDevice ==
    (Len(device_panel.devices) >= 2 /\ Len(runs) < DataRuns)
        => ENABLED (\E key \in { "up", "down" } :
                       /\ DevicePanelKey(key)
                       /\ app'.selected_device_index # NoIndex
                       /\ app'.selected_device_index[1] < Len(device_panel.devices)
                       /\ Len(runs') > Len(runs))

\* The send workers that are signing or broadcasting.
InFlight == { w \in SendThreads : sends[w].pc \in SigningPcs \cup { "broadcast" } }

\* C36: at most one send attempt is in flight: while a _do_send worker is in
\* Signing or Broadcasting, no Send/Confirm presses start a second one.
C36_OneSendInFlight == Cardinality(InFlight) <= 1

\* C37: what a send worker builds and signs with is what the session held
\* when the gate of the confirm passed: the key container it loads is that
\* of the gate's mount point, and the source of the transfer is the gate's
\* public key (destination and amount are arguments of the worker).
C37_SendUsesGateValues ==
    \A w \in SendThreads :
        /\ sends[w].keypair_path # NONE
              => sends[w].keypair_path = sends[w].gate.mount_point
        /\ sends[w].from_pubkey # NONE
              => sends[w].from_pubkey = sends[w].gate.public_key

\* C38: the report the security panel shows belongs to the selected token:
\* the answer of a fetch for a token that is no longer selected is never
\* shown as the selected token's report.
C38_ReportBelongsToSelection ==
    ShownReport # << >>
        => ShownReport[1] = token_security.selected_token[1].mint

\* C39: with a non-empty transaction list, the selection is a position of
\* the list and lies inside the visible window.
C39_SelectionValidAndVisible ==
    tx_panel.transactions # << >>
        => /\ 0 <= tx_panel.selected_index
           /\ tx_panel.selected_index < Len(tx_panel.transactions)
           /\ tx_panel.selected_index < tx_panel.page_size

\* C40: an unmount that fails, by raising or by returning false, leaves the
\* session's public key, balance and token list as they were, the unmounted
\* flag false and the application running.
C40_FailedUnmountChangesNothing ==
    [][\A o \in { "false", "raised" } :
          (ActionUnmount(o) /\ usb_manager.mount_point # NONE)
             => /\ app'.current_public_key = app.current_public_key
                /\ app'.current_balance = app.current_balance
                /\ app'.current_tokens = app.current_tokens
                /\ ~app'.did_unmount
                /\ ~app'.exited]_vars

====
